---- MODULE Spec2Model ----
(***************************************************************************)
(* Access-control and lifecycle core of the xcube geoDB stored procedures  *)
(* (xcube_geodb/sql/geodb.sql): the database registry                      *)
(* geodb_user_databases, role membership, the physical collection tables   *)
(* with their owner, columns, trigger, identifier sequence and privileges, *)
(* and the stored procedures that act on them.  Every procedure runs as    *)
(* one transaction under the calling role (none of the modelled ones is    *)
(* SECURITY DEFINER), so a statement that raises leaves the state as it    *)
(* was before the call.                                                    *)
(*                                                                         *)
(* Names (roles, databases, collections, columns) are sequences of         *)
(* one-character strings, so that LIKE, || and lower() are computed on     *)
(* characters.                                                             *)
(***************************************************************************)
EXTENDS Integers, Sequences, FiniteSets, TLC

VARIABLES
    roles,      \* pg_roles: the names of the existing roles
    members,    \* pg_auth_members: pairs <<member, role>> (direct membership)
    registry,   \* geodb_user_databases: rows [name, owner]
    tables,     \* the collections: table name -> its catalog entry
    last,       \* the last call: procedure, caller, arguments, outcome
    admin_option, \* pg_auth_members.admin_option: pairs <<role, group>> that may grant group
    pending     \* the calls in progress in concurrent sessions: session -> its position

vars == <<roles, members, registry, tables, last, admin_option, pending>>

(***************************************************************************)
(* Bounds of the model.                                                    *)
(***************************************************************************)
MaxRows == 3      \* rows of geodb_user_databases
MaxTables == 2    \* collections that exist at the same time

(***************************************************************************)
(* The names the calls are made with.                                      *)
(***************************************************************************)
alice == <<"a">>                 \* a login role registered with geodb_register_user
bob == <<"b">>                   \* a second login role
manager == <<"m">>               \* the login role the groups were created for
grp == <<"g">>                   \* a NOLOGIN role made by geodb_create_role
hgrp == <<"h">>                  \* a second NOLOGIN role
PUBLIC == <<"public">>           \* the pseudo-role every role belongs to
postgres == <<"postgres">>       \* the bootstrap superuser named in GRANT ALL ... TO postgres
NoName == <<>>

Users == {alice, bob}
Groups == {grp, hgrp}
DbNames == {alice, bob, <<"b", "a">>}
ShortNames == {<<"x">>}
Collection(db, short) == db \o <<"_">> \o short
CollNames == {Collection(db, s) : db \in DbNames, s \in ShortNames}

(***************************************************************************)
(* Text functions of the engine.                                           *)
(***************************************************************************)
\* text LIKE pattern: _ matches any one character, % any run of characters
RECURSIVE Like(_, _)
Like(text, pattern) ==
    IF pattern = <<>> THEN text = <<>>
    ELSE IF Head(pattern) = "%"
         THEN Like(text, Tail(pattern))
              \/ (text # <<>> /\ Like(Tail(text), pattern))
         ELSE /\ text # <<>>
              /\ (Head(pattern) = "_" \/ Head(pattern) = Head(text))
              /\ Like(Tail(text), Tail(pattern))

LowerChar(c) == IF c = "P" THEN "p" ELSE c
\* lower(text); unquoted identifiers are folded the same way
Lower(text) == [i \in 1..Len(text) |-> LowerChar(text[i])]

(***************************************************************************)
(* Role membership.                                                        *)
(***************************************************************************)
RECURSIVE MemberClosure(_, _)
MemberClosure(S, mem) ==
    LET N == S \cup {e[2] : e \in {x \in mem : x[1] \in S}}
    IN  IF N = S THEN S ELSE MemberClosure(N, mem)

\* pg_has_role(usr, role, 'member'): usr is role, or a direct or indirect member of it
pg_has_role(usr, role) == role \in MemberClosure({usr}, members)

\* the privileges of role are available to usr (every modelled role is INHERIT)
has_privs_of_role(usr, role) == role \in MemberClosure({usr}, members)

(***************************************************************************)
(* geodb_user_allowed(collection, usr)                                     *)
(***************************************************************************)
\* a variant that asks only the groups usr is a direct member of
geodb_user_allowed_direct(collection, usr) ==
    IF \E r \in registry :
          /\ Like(collection, r.name \o <<"_", "%">>)
          /\ (r.owner = usr \/ <<usr, r.owner>> \in members)
    THEN 1 ELSE 0

RECURSIVE geodb_user_allowed(_, _)
geodb_user_allowed(collection, usr) ==
    LET ct == Cardinality({r \in registry :
                  Like(collection, r.name \o <<"_", "%">>) /\ r.owner = usr})
    IN  IF ct > 0 THEN 1
        ELSE IF \E groupname \in {r \in roles : pg_has_role(usr, r)} :
                   /\ groupname # usr
                   /\ geodb_user_allowed(collection, groupname) > 0
             THEN 1
             ELSE 0

(***************************************************************************)
(* Privileges on geodb_user_databases.                                     *)
(***************************************************************************)
\* GRANT SELECT, INSERT, UPDATE ON geodb_user_databases TO PUBLIC
RegistryPublicPrivs == {"SELECT", "INSERT", "UPDATE"}
\* roles a deployment has granted DELETE as well, as the test set-up does
RegistryDeleteGrantees == {bob}
HasRegistryPriv(usr, priv) ==
    \/ usr = postgres
    \/ priv \in RegistryPublicPrivs
    \/ (priv = "DELETE" /\ \E r \in RegistryDeleteGrantees : has_privs_of_role(usr, r))

Call(op, usr, args, res, who) ==
    [op |-> op, usr |-> usr, args |-> args, res |-> res, who |-> who]

Row(name, owner) == [name |-> name, owner |-> owner]

(***************************************************************************)
(* Init: geodb.sql has been installed, alice, bob and manager have been    *)
(* registered (each with its default database row), and the two groups     *)
(* have been created for manager (GRANT ... WITH ADMIN OPTION).            *)
(***************************************************************************)
Init ==
    /\ roles = Users \cup Groups \cup {manager}
    /\ members = {<<manager, grp>>, <<manager, hgrp>>}
    /\ registry = {Row(alice, alice), Row(bob, bob)}
    /\ admin_option = {<<manager, grp>>, <<manager, hgrp>>}
    /\ pending = <<>>
    /\ tables = <<>>
    /\ last = Call("init", NoName, <<>>, "success", NoName)

(***************************************************************************)
(* geodb_create_database(database)                                         *)
(***************************************************************************)
\* a variant that looks only for a database of that name owned by the caller
geodb_create_database_own(usr, database) ==
    /\ IF Row(database, usr) \in registry
       THEN /\ last' = Call("create_database", usr, <<database>>, "exists already", NoName)
            /\ UNCHANGED registry
       ELSE /\ Cardinality(registry) < MaxRows
            /\ registry' = registry \cup {Row(database, usr)}
            /\ last' = Call("create_database", usr, <<database>>, "success", NoName)
    /\ UNCHANGED <<roles, members, tables, admin_option, pending>>

geodb_create_database(usr, database) ==
    /\ IF \E r \in registry : r.name = database
       THEN /\ last' = Call("create_database", usr, <<database>>, "exists already", NoName)
            /\ UNCHANGED registry
       ELSE /\ Cardinality(registry) < MaxRows
            /\ registry' = registry \cup {Row(database, usr)}
            /\ last' = Call("create_database", usr, <<database>>, "success", NoName)
    /\ UNCHANGED <<roles, members, tables, admin_option, pending>>

(***************************************************************************)
(* geodb_truncate_database(database)                                       *)
(***************************************************************************)
geodb_truncate_database(usr, database) ==
    /\ IF HasRegistryPriv(usr, "DELETE")
       THEN /\ registry' = {r \in registry : ~(r.name = database /\ r.owner = usr)}
            /\ last' = Call("truncate_database", usr, <<database>>, "success", NoName)
       ELSE /\ last' = Call("truncate_database", usr, <<database>>,
                            "permission denied for table", NoName)
            /\ UNCHANGED registry
    /\ UNCHANGED <<roles, members, tables, admin_option, pending>>

(***************************************************************************)
(* geodb_group_publish_database(database, user_group) and                  *)
(* geodb_group_unpublish_database(database, user_group)                    *)
(***************************************************************************)
geodb_group_publish_database(usr, database, user_group) ==
    /\ IF Row(database, user_group) \in registry
       THEN \* CONSTRAINT unique_db_name_owner UNIQUE (name, owner)
            /\ last' = Call("group_publish_database", usr, <<database, user_group>>,
                            "unique_violation", NoName)
            /\ UNCHANGED registry
       ELSE /\ Cardinality(registry) < MaxRows
            /\ registry' = registry \cup {Row(database, user_group)}
            /\ last' = Call("group_publish_database", usr, <<database, user_group>>,
                            "success", NoName)
    /\ UNCHANGED <<roles, members, tables, admin_option, pending>>

geodb_group_unpublish_database(usr, database, user_group) ==
    /\ IF HasRegistryPriv(usr, "DELETE")
       THEN /\ registry' = registry \ {Row(database, user_group)}
            /\ last' = Call("group_unpublish_database", usr, <<database, user_group>>,
                            "success", NoName)
       ELSE /\ last' = Call("group_unpublish_database", usr, <<database, user_group>>,
                            "permission denied for table", NoName)
            /\ UNCHANGED registry
    /\ UNCHANGED <<roles, members, tables, admin_option, pending>>

(***************************************************************************)
(* geodb_group_grant(user_group, user_name) and                            *)
(* geodb_group_revoke(user_group, user_name), called by the role that      *)
(* holds the ADMIN OPTION on the group.                                    *)
(***************************************************************************)
\* usr may GRANT role: a superuser, or a role with the ADMIN OPTION on it
is_admin_of_role(usr, role) ==
    \/ usr = postgres
    \/ \E e \in admin_option : e[2] = role /\ has_privs_of_role(usr, e[1])

geodb_group_grant(usr, user_group, user_name) ==
    /\ IF user_group \notin roles \/ user_name \notin roles
       THEN /\ last' = Call("group_grant", usr, <<user_group, user_name>>,
                            "undefined_object", NoName)
            /\ UNCHANGED members
       ELSE IF ~is_admin_of_role(usr, user_group)
       THEN /\ last' = Call("group_grant", usr, <<user_group, user_name>>,
                            "permission denied to grant role", NoName)
            /\ UNCHANGED members
       ELSE IF pg_has_role(user_group, user_name)
       THEN \* the engine refuses a membership loop
            /\ last' = Call("group_grant", usr, <<user_group, user_name>>,
                            "invalid_grant_operation", NoName)
            /\ UNCHANGED members
       ELSE /\ members' = members \cup {<<user_name, user_group>>}
            /\ last' = Call("group_grant", usr, <<user_group, user_name>>, "success", NoName)
    /\ UNCHANGED <<roles, registry, tables, admin_option, pending>>

geodb_group_revoke(usr, user_group, user_name) ==
    /\ IF user_group \notin roles \/ user_name \notin roles
       THEN /\ last' = Call("group_revoke", usr, <<user_group, user_name>>,
                            "undefined_object", NoName)
            /\ UNCHANGED <<members, admin_option>>
       ELSE IF ~is_admin_of_role(usr, user_group)
       THEN /\ last' = Call("group_revoke", usr, <<user_group, user_name>>,
                            "permission denied to revoke role", NoName)
            /\ UNCHANGED <<members, admin_option>>
       ELSE /\ members' = members \ {<<user_name, user_group>>}
            /\ admin_option' = admin_option \ {<<user_name, user_group>>}
            /\ last' = Call("group_revoke", usr, <<user_group, user_name>>, "success", NoName)
    /\ UNCHANGED <<roles, registry, tables, pending>>

(***************************************************************************)
(* The catalog entry of a collection and the engine's checks on it.        *)
(***************************************************************************)
TablePrivs == {"SELECT", "WRITE"}   \* WRITE: the privileges of ALL other than SELECT

TrigName(collection) == <<"update_">> \o collection \o <<"_modtime">>

\* usr owns table t of catalog T, directly or through the owning role
OwnsTable(T, usr, t) == has_privs_of_role(usr, T[t].owner)

HoldsTablePriv(T, usr, t, priv) ==
    \/ OwnsTable(T, usr, t)
    \/ \E e \in T[t].acl :
          e[2] = priv /\ (e[1] = PUBLIC \/ has_privs_of_role(usr, e[1]))

AnyTablePriv(T, usr, t) == \E priv \in TablePrivs : HoldsTablePriv(T, usr, t, priv)

HoldsSeqPriv(T, usr, t) ==
    \/ OwnsTable(T, usr, t)
    \/ \E g \in T[t].seqacl : g = PUBLIC \/ has_privs_of_role(usr, g)

\* the outcome of one statement: an error, or the catalog after it
Ok(T) == [err |-> "", tables |-> T]
Err(msg, T) == [err |-> msg, tables |-> T]

With(T, t, entry) == [x \in DOMAIN T \cup {t} |-> IF x = t THEN entry ELSE T[x]]
Without(T, t) == [x \in DOMAIN T \ {t} |-> T[x]]

\* CREATE TABLE t (id SERIAL PRIMARY KEY, created_at, modified_at, geometry)
CreateTable(T, usr, t) ==
    IF t \in DOMAIN T THEN Err("duplicate_table", T)
    ELSE Ok(With(T, t, [owner |-> usr, cols |-> {}, seq |-> TRUE, trig |-> {},
                        acl |-> {}, seqacl |-> {}, rows |-> {}, analysed |-> FALSE,
                        idx |-> {}]))

\* ALTER TABLE t ADD COLUMN col
AddColumn(T, usr, t, col) ==
    IF t \notin DOMAIN T THEN Err("undefined_table", T)
    ELSE IF ~OwnsTable(T, usr, t) THEN Err("must be owner of table", T)
    ELSE IF col \in T[t].cols THEN Err("duplicate_column", T)
    ELSE Ok(With(T, t, [T[t] EXCEPT !.cols = @ \cup {col}]))

\* ALTER TABLE t DROP COLUMN col
DropColumn(T, usr, t, col) ==
    IF t \notin DOMAIN T THEN Err("undefined_table", T)
    ELSE IF ~OwnsTable(T, usr, t) THEN Err("must be owner of table", T)
    ELSE IF col \notin T[t].cols THEN Err("undefined_column", T)
    ELSE Ok(With(T, t, [T[t] EXCEPT !.cols = @ \ {col},
                                    !.idx = {i \in @ : i.col # col}]))

\* CREATE TRIGGER name BEFORE UPDATE ON t
CreateTrigger(T, usr, name, t) ==
    IF t \notin DOMAIN T THEN Err("undefined_table", T)
    ELSE IF ~OwnsTable(T, usr, t) THEN Err("must be owner of table", T)
    ELSE IF name \in T[t].trig THEN Err("duplicate_object", T)
    ELSE Ok(With(T, t, [T[t] EXCEPT !.trig = @ \cup {name}]))

\* GRANT privs ON TABLE t TO grantee.  A caller without the owner's rights
\* holds no grant option: with some privilege on t the engine only warns
\* that nothing was granted, with none it raises.
GrantOnTable(T, usr, t, privs, grantee) ==
    IF t \notin DOMAIN T THEN Err("undefined_table", T)
    ELSE IF grantee \notin roles \cup {PUBLIC, postgres} THEN Err("undefined_object", T)
    ELSE IF OwnsTable(T, usr, t)
         THEN Ok(With(T, t, [T[t] EXCEPT !.acl = @ \cup {<<grantee, p>> : p \in privs}]))
    ELSE IF AnyTablePriv(T, usr, t) THEN Ok(T)
    ELSE Err("permission denied for table", T)

\* REVOKE privs ON TABLE t FROM grantee
RevokeOnTable(T, usr, t, privs, grantee) ==
    IF t \notin DOMAIN T THEN Err("undefined_table", T)
    ELSE IF grantee \notin roles \cup {PUBLIC, postgres} THEN Err("undefined_object", T)
    ELSE IF OwnsTable(T, usr, t)
         THEN Ok(With(T, t, [T[t] EXCEPT !.acl = @ \ {<<grantee, p>> : p \in privs}]))
    ELSE IF AnyTablePriv(T, usr, t) THEN Ok(T)
    ELSE Err("permission denied for table", T)

\* GRANT USAGE, SELECT ON SEQUENCE <the sequence of t.id> TO grantee
GrantOnSequence(T, usr, t, grantee) ==
    IF grantee \notin roles \cup {PUBLIC, postgres} THEN Err("undefined_object", T)
    ELSE IF OwnsTable(T, usr, t)
         THEN Ok(With(T, t, [T[t] EXCEPT !.seqacl = @ \cup {grantee}]))
    ELSE IF HoldsSeqPriv(T, usr, t) THEN Ok(T)
    ELSE Err("permission denied for sequence", T)

\* REVOKE USAGE, SELECT ON SEQUENCE <the sequence of t.id> FROM grantee
RevokeOnSequence(T, usr, t, grantee) ==
    IF grantee \notin roles \cup {PUBLIC, postgres} THEN Err("undefined_object", T)
    ELSE IF OwnsTable(T, usr, t)
         THEN Ok(With(T, t, [T[t] EXCEPT !.seqacl = @ \ {grantee}]))
    ELSE IF HoldsSeqPriv(T, usr, t) THEN Ok(T)
    ELSE Err("permission denied for sequence", T)

\* ALTER TABLE t OWNER TO new_owner
AlterOwner(T, usr, t, new_owner) ==
    IF t \notin DOMAIN T THEN Err("undefined_table", T)
    ELSE IF ~OwnsTable(T, usr, t) THEN Err("must be owner of table", T)
    ELSE IF ~has_privs_of_role(usr, new_owner) THEN Err("must be member of role", T)
    ELSE Ok(With(T, t, [T[t] EXCEPT !.owner = new_owner]))

\* ALTER TABLE t RENAME TO new_name
RenameTable(T, usr, t, new_name) ==
    IF t \notin DOMAIN T THEN Err("undefined_table", T)
    ELSE IF ~OwnsTable(T, usr, t) THEN Err("must be owner of table", T)
    ELSE IF new_name \in DOMAIN T THEN Err("duplicate_table", T)
    ELSE Ok(With(Without(T, t), new_name, T[t]))

\* pg_get_serial_sequence('"t"', 'id'): "seq" when id owns a sequence, "null" when
\* it owns none, and an error when there is no such table
pg_get_serial_sequence(T, t) ==
    IF t \notin DOMAIN T THEN "undefined_table"
    ELSE IF T[t].seq THEN "seq" ELSE "null"

(***************************************************************************)
(* geodb_add_properties(collection, properties): one ALTER TABLE ... ADD   *)
(* COLUMN per key, the key lower-cased                                     *)
(***************************************************************************)
RECURSIVE add_properties(_, _, _, _)
add_properties(T, usr, collection, properties) ==
    IF properties = <<>> THEN Ok(T)
    ELSE LET r == AddColumn(T, usr, collection, Lower(Head(properties)))
         IN  IF r.err # "" THEN r
             ELSE add_properties(r.tables, usr, collection, Tail(properties))

(***************************************************************************)
(* geodb_create_collection(collection, properties, crs)                    *)
(***************************************************************************)
\* a variant without the check of geodb_user_allowed
create_collection_unchecked(usr, collection, properties) ==
    LET s1 == CreateTable(tables, usr, collection)
        s2 == add_properties(s1.tables, usr, collection, properties)
        s3 == CreateTrigger(s2.tables, usr, TrigName(collection), collection)
    IN  IF s1.err # "" THEN [res |-> s1.err, who |-> NoName, tables |-> tables]
        ELSE IF s2.err # "" THEN [res |-> s2.err, who |-> NoName, tables |-> tables]
        ELSE IF s3.err # "" THEN [res |-> s3.err, who |-> NoName, tables |-> tables]
        ELSE [res |-> "success", who |-> NoName, tables |-> s3.tables]

\* the function run on the catalog T of the calling transaction
create_collection_in(T, usr, collection, properties) ==
    LET owns == geodb_user_allowed(collection, usr)
        s1 == CreateTable(T, usr, collection)
        s2 == add_properties(s1.tables, usr, collection, properties)
        s3 == CreateTrigger(s2.tables, usr, TrigName(collection), collection)
        s4 == GrantOnTable(s3.tables, usr, collection, TablePrivs, postgres)
        s5 == AlterOwner(s4.tables, usr, collection, usr)
    IN  IF owns = 0 THEN [res |-> "No access for user", who |-> usr, tables |-> T]
        ELSE IF s1.err # "" THEN [res |-> s1.err, who |-> NoName, tables |-> T]
        ELSE IF s2.err # "" THEN [res |-> s2.err, who |-> NoName, tables |-> T]
        ELSE IF s3.err # "" THEN [res |-> s3.err, who |-> NoName, tables |-> T]
        ELSE IF s4.err # "" THEN [res |-> s4.err, who |-> NoName, tables |-> T]
        ELSE IF s5.err # "" THEN [res |-> s5.err, who |-> NoName, tables |-> T]
        ELSE [res |-> "success", who |-> NoName, tables |-> s5.tables]

create_collection(usr, collection, properties) ==
    create_collection_in(tables, usr, collection, properties)

geodb_create_collection(usr, collection, properties) ==
    LET o == create_collection(usr, collection, properties)
    IN  /\ o.res = "success" => Cardinality(DOMAIN tables) < MaxTables
        /\ tables' = o.tables
        /\ last' = Call("create_collection", usr, <<collection>>, o.res, o.who)
        /\ UNCHANGED <<roles, members, registry, admin_option, pending>>

(***************************************************************************)
(* geodb_rename_collection(collection, new_name)                           *)
(***************************************************************************)
\* a variant that asks geodb_user_allowed about the collection, not the new name
rename_collection_by_source(usr, collection, new_name) ==
    LET allowed == geodb_user_allowed(collection, usr)
        s1 == RenameTable(tables, usr, collection, new_name)
    IN  IF allowed = 1
        THEN IF s1.err # "" THEN [res |-> s1.err, who |-> NoName, tables |-> tables]
             ELSE [res |-> "success", who |-> NoName, tables |-> s1.tables]
        ELSE [res |-> "has not access to that table or database", who |-> usr,
              tables |-> tables]

rename_collection(usr, collection, new_name) ==
    LET allowed == geodb_user_allowed(new_name, usr)
        s1 == RenameTable(tables, usr, collection, new_name)
    IN  IF allowed = 1
        THEN IF s1.err # "" THEN [res |-> s1.err, who |-> NoName, tables |-> tables]
             ELSE [res |-> "success", who |-> NoName, tables |-> s1.tables]
        ELSE [res |-> "has not access to that table or database", who |-> usr,
              tables |-> tables]

geodb_rename_collection(usr, collection, new_name) ==
    LET o == rename_collection(usr, collection, new_name)
    IN  /\ tables' = o.tables
        /\ last' = Call("rename_collection", usr, <<collection, new_name>>, o.res, o.who)
        /\ UNCHANGED <<roles, members, registry, admin_option, pending>>

(***************************************************************************)
(* geodb_drop_properties(collection, properties): one ALTER TABLE ... DROP *)
(* COLUMN per array element, the element written as the JSON string it is  *)
(* (in double quotes, so its case is kept)                                 *)
(***************************************************************************)
RECURSIVE drop_statements(_, _, _, _)
drop_statements(T, usr, collection, properties) ==
    IF properties = <<>> THEN Ok(T)
    ELSE LET r == DropColumn(T, usr, collection, Head(properties))
         IN  IF r.err # "" THEN r
             ELSE drop_statements(r.tables, usr, collection, Tail(properties))

Outcome(r, T) ==
    IF r.err # "" THEN [res |-> r.err, who |-> NoName, tables |-> T]
    ELSE [res |-> "success", who |-> NoName, tables |-> r.tables]

geodb_add_properties(usr, collection, properties) ==
    LET o == Outcome(add_properties(tables, usr, collection, properties), tables)
    IN  /\ tables' = o.tables
        /\ last' = Call("add_properties", usr, <<collection, properties>>, o.res, o.who)
        /\ UNCHANGED <<roles, members, registry, admin_option, pending>>

geodb_drop_properties(usr, collection, properties) ==
    LET o == Outcome(drop_statements(tables, usr, collection, properties), tables)
    IN  /\ tables' = o.tables
        /\ last' = Call("drop_properties", usr, <<collection, properties>>, o.res, o.who)
        /\ UNCHANGED <<roles, members, registry, admin_option, pending>>

(***************************************************************************)
(* geodb_copy_collection(old_collection, new_collection)                   *)
(***************************************************************************)
\* CREATE TABLE new (LIKE old INCLUDING ALL): the columns and the defaults of
\* old; the default of id still draws from the sequence of old.id, which new.id
\* does not own
CreateTableLike(T, usr, new, old) ==
    IF old \notin DOMAIN T THEN Err("undefined_table", T)
    ELSE IF ~HoldsTablePriv(T, usr, old, "SELECT") THEN Err("permission denied for table", T)
    ELSE IF new \in DOMAIN T THEN Err("duplicate_table", T)
    ELSE Ok(With(T, new, [owner |-> usr, cols |-> T[old].cols, seq |-> FALSE,
                          trig |-> {}, acl |-> {}, seqacl |-> {},
                          rows |-> {}, analysed |-> FALSE,
                          \* INCLUDING ALL: the indexes too, under names the engine makes
                          idx |-> {[i EXCEPT !.name = new \o <<"_">> \o i.col \o <<"_idx">>] :
                                      i \in T[old].idx}]))

\* INSERT INTO new (SELECT * FROM old)
InsertSelect(T, usr, new, old) ==
    IF old \notin DOMAIN T \/ new \notin DOMAIN T THEN Err("undefined_table", T)
    ELSE IF ~HoldsTablePriv(T, usr, old, "SELECT") \/ ~HoldsTablePriv(T, usr, new, "WRITE")
    THEN Err("permission denied for table", T)
    ELSE Ok(With(T, new, [T[new] EXCEPT !.rows = @ \cup T[old].rows]))

\* a variant without the INSERT
copy_collection_structure(usr, old_collection, new_collection) ==
    LET allowed == geodb_user_allowed(new_collection, usr)
        s1 == CreateTableLike(tables, usr, new_collection, old_collection)
        s2 == GrantOnTable(s1.tables, usr, new_collection, TablePrivs, postgres)
        s3 == CreateTrigger(s2.tables, usr, TrigName(new_collection), new_collection)
    IN  IF allowed = 1
        THEN IF s1.err # "" THEN [res |-> s1.err, who |-> NoName, tables |-> tables]
             ELSE IF s2.err # "" THEN [res |-> s2.err, who |-> NoName, tables |-> tables]
             ELSE IF s3.err # "" THEN [res |-> s3.err, who |-> NoName, tables |-> tables]
             ELSE [res |-> "SUCCESS", who |-> NoName, tables |-> s3.tables]
        ELSE [res |-> "has not access to that table or database", who |-> usr,
              tables |-> tables]

copy_collection(usr, old_collection, new_collection) ==
    LET allowed == geodb_user_allowed(new_collection, usr)
        s1 == CreateTableLike(tables, usr, new_collection, old_collection)
        s2 == GrantOnTable(s1.tables, usr, new_collection, TablePrivs, postgres)
        s3 == CreateTrigger(s2.tables, usr, TrigName(new_collection), new_collection)
        s4 == InsertSelect(s3.tables, usr, new_collection, old_collection)
    IN  IF allowed = 1
        THEN IF s1.err # "" THEN [res |-> s1.err, who |-> NoName, tables |-> tables]
             ELSE IF s2.err # "" THEN [res |-> s2.err, who |-> NoName, tables |-> tables]
             ELSE IF s3.err # "" THEN [res |-> s3.err, who |-> NoName, tables |-> tables]
             ELSE IF s4.err # "" THEN [res |-> s4.err, who |-> NoName, tables |-> tables]
             ELSE [res |-> "SUCCESS", who |-> NoName, tables |-> s4.tables]
        ELSE [res |-> "has not access to that table or database", who |-> usr,
              tables |-> tables]

geodb_copy_collection(usr, old_collection, new_collection) ==
    LET o == copy_collection(usr, old_collection, new_collection)
    IN  /\ o.res = "SUCCESS" => Cardinality(DOMAIN tables) < MaxTables
        /\ tables' = o.tables
        /\ last' = Call("copy_collection", usr, <<old_collection, new_collection>>,
                        o.res, o.who)
        /\ UNCHANGED <<roles, members, registry, admin_option, pending>>

(***************************************************************************)
(* geodb_grant_access_to_collection(collection, usr) and                   *)
(* geodb_revoke_access_from_collection(collection, usr); the role the call *)
(* names is written grantee here, usr is the caller                        *)
(***************************************************************************)
\* a variant that grants on the table only
grant_access_table_only(usr, collection, grantee) ==
    LET seq_name == pg_get_serial_sequence(tables, collection)
        s1 == GrantOnTable(tables, usr, collection, {"SELECT"}, grantee)
    IN  IF seq_name = "undefined_table"
        THEN [res |-> "undefined_table", who |-> NoName, tables |-> tables]
        ELSE IF seq_name = "null"
        THEN [res |-> "No sequence for collection", who |-> NoName, tables |-> tables]
        ELSE IF s1.err # "" THEN [res |-> s1.err, who |-> NoName, tables |-> tables]
        ELSE [res |-> "success", who |-> NoName, tables |-> s1.tables]

grant_access_to_collection(usr, collection, grantee) ==
    LET seq_name == pg_get_serial_sequence(tables, collection)
        s1 == GrantOnTable(tables, usr, collection, {"SELECT"}, grantee)
        s2 == GrantOnSequence(s1.tables, usr, collection, grantee)
    IN  IF seq_name = "undefined_table"
        THEN [res |-> "undefined_table", who |-> NoName, tables |-> tables]
        ELSE IF seq_name = "null"
        THEN [res |-> "No sequence for collection", who |-> NoName, tables |-> tables]
        ELSE IF s1.err # "" THEN [res |-> s1.err, who |-> NoName, tables |-> tables]
        ELSE IF s2.err # "" THEN [res |-> s2.err, who |-> NoName, tables |-> tables]
        ELSE [res |-> "success", who |-> NoName, tables |-> s2.tables]

\* with seq_name NULL, format() writes 'REVOKE USAGE, SELECT ON SEQUENCE  FROM ...'
revoke_access_from_collection(usr, collection, grantee) ==
    LET seq_name == pg_get_serial_sequence(tables, collection)
        s1 == RevokeOnTable(tables, usr, collection, {"SELECT"}, grantee)
        s2 == IF seq_name = "null" THEN Err("syntax_error", s1.tables)
              ELSE RevokeOnSequence(s1.tables, usr, collection, grantee)
    IN  IF seq_name = "undefined_table"
        THEN [res |-> "undefined_table", who |-> NoName, tables |-> tables]
        ELSE IF s1.err # "" THEN [res |-> s1.err, who |-> NoName, tables |-> tables]
        ELSE IF s2.err # "" THEN [res |-> s2.err, who |-> NoName, tables |-> tables]
        ELSE [res |-> "success", who |-> NoName, tables |-> s2.tables]

geodb_grant_access_to_collection(usr, collection, grantee) ==
    LET o == grant_access_to_collection(usr, collection, grantee)
    IN  /\ tables' = o.tables
        /\ last' = Call("grant_access_to_collection", usr, <<collection, grantee>>,
                        o.res, o.who)
        /\ UNCHANGED <<roles, members, registry, admin_option, pending>>

geodb_revoke_access_from_collection(usr, collection, grantee) ==
    LET o == revoke_access_from_collection(usr, collection, grantee)
    IN  /\ tables' = o.tables
        /\ last' = Call("revoke_access_from_collection", usr, <<collection, grantee>>,
                        o.res, o.who)
        /\ UNCHANGED <<roles, members, registry, admin_option, pending>>

(***************************************************************************)
(* geodb_publish_collection(collection) and                                *)
(* geodb_unpublish_collection(collection)                                  *)
(***************************************************************************)
publish_collection(usr, collection) ==
    Outcome(GrantOnTable(tables, usr, collection, {"SELECT"}, PUBLIC), tables)

unpublish_collection(usr, collection) ==
    Outcome(RevokeOnTable(tables, usr, collection, {"SELECT"}, PUBLIC), tables)

geodb_publish_collection(usr, collection) ==
    LET o == publish_collection(usr, collection)
    IN  /\ tables' = o.tables
        /\ last' = Call("publish_collection", usr, <<collection>>, o.res, o.who)
        /\ UNCHANGED <<roles, members, registry, admin_option, pending>>

geodb_unpublish_collection(usr, collection) ==
    LET o == unpublish_collection(usr, collection)
    IN  /\ tables' = o.tables
        /\ last' = Call("unpublish_collection", usr, <<collection>>, o.res, o.who)
        /\ UNCHANGED <<roles, members, registry, admin_option, pending>>

(***************************************************************************)
(* geodb_get_pg(collection, ...): the query reads the collection as the    *)
(* caller; the JSON_AGG around it returns one row whatever it matched      *)
(***************************************************************************)
\* a variant that reads only for callers geodb_user_allowed admits
get_pg_allowed_only(usr, collection) ==
    IF collection \notin DOMAIN tables THEN "undefined_table"
    ELSE IF geodb_user_allowed(collection, usr) = 0 THEN "permission denied for table"
    ELSE IF ~HoldsTablePriv(tables, usr, collection, "SELECT")
         THEN "permission denied for table"
    ELSE "success"

get_pg(usr, collection) ==
    IF collection \notin DOMAIN tables THEN "undefined_table"
    ELSE IF ~HoldsTablePriv(tables, usr, collection, "SELECT")
         THEN "permission denied for table"
    ELSE "success"

geodb_get_pg(usr, collection) ==
    /\ last' = Call("get_pg", usr, <<collection>>, get_pg(usr, collection), NoName)
    /\ UNCHANGED <<roles, members, registry, tables, admin_option, pending>>

(***************************************************************************)
(* The calls of the specifications.                                        *)
(***************************************************************************)
a_x == Collection(alice, <<"x">>)
b_x == Collection(bob, <<"x">>)
ba_x == Collection(<<"b", "a">>, <<"x">>)
PropLists == {<<>>, <<<<"p">>>>, <<<<"P">>>>, <<<<"p">>, <<"P">>>>}

(***************************************************************************)
(* SpecOwn: databases, group membership and the collections made and       *)
(* renamed under them.                                                     *)
(***************************************************************************)
MemberCalls == {<<grp, bob>>, <<hgrp, grp>>, <<grp, hgrp>>}
RenameCalls == {<<a_x, b_x>>, <<b_x, a_x>>, <<ba_x, b_x>>}

NextOwn ==
    \/ \E usr \in Users : geodb_create_database(usr, <<"b", "a">>)
    \/ \E user_group \in Groups : geodb_group_publish_database(alice, alice, user_group)
    \/ \E c \in MemberCalls : geodb_group_grant(manager, c[1], c[2])
    \/ \E c \in MemberCalls : geodb_group_revoke(manager, c[1], c[2])
    \/ \E usr \in Users, collection \in CollNames :
          geodb_create_collection(usr, collection, <<>>)
    \/ \E usr \in Users, c \in RenameCalls : geodb_rename_collection(usr, c[1], c[2])

SpecOwn == Init /\ [][NextOwn]_vars

(***************************************************************************)
(* SpecReg: the registry of databases.                                     *)
(***************************************************************************)
NextReg ==
    \/ \E usr \in Users, database \in DbNames : geodb_create_database(usr, database)
    \/ \E usr \in Users, database \in DbNames : geodb_truncate_database(usr, database)
    \/ \E usr \in Users, database \in {alice, bob} :
          geodb_group_publish_database(usr, database, grp)
    \/ \E usr \in Users, database \in {alice, bob} :
          geodb_group_unpublish_database(usr, database, grp)
    \/ \E usr \in Users, collection \in {a_x, b_x} :
          geodb_create_collection(usr, collection, <<>>)
    \/ \E usr \in Users, collection \in {a_x, b_x} : geodb_publish_collection(usr, collection)

SpecReg == Init /\ [][NextReg]_vars

(***************************************************************************)
(* SpecGrant: privileges on collections.  It starts after                  *)
(* geodb_group_publish_database('a', 'g') and geodb_group_grant('g', 'b'). *)
(***************************************************************************)
InitGrant ==
    /\ roles = Users \cup Groups \cup {manager}
    /\ members = {<<manager, grp>>, <<manager, hgrp>>, <<bob, grp>>}
    /\ registry = {Row(alice, alice), Row(bob, bob), Row(alice, grp)}
    /\ admin_option = {<<manager, grp>>, <<manager, hgrp>>}
    /\ pending = <<>>
    /\ tables = <<>>
    /\ last = Call("group_grant", manager, <<grp, bob>>, "success", NoName)

Grantees == {bob, PUBLIC}

NextGrant ==
    \/ geodb_group_grant(manager, grp, bob)
    \/ geodb_group_revoke(manager, grp, bob)
    \/ \E usr \in Users, properties \in {<<>>, <<<<"P">>>>} :
          geodb_create_collection(usr, a_x, properties)
    \/ \E usr \in Users : geodb_copy_collection(usr, a_x, b_x)
    \/ \E usr \in Users, collection \in {a_x, b_x}, grantee \in Grantees :
          geodb_grant_access_to_collection(usr, collection, grantee)
    \/ \E usr \in Users, collection \in {a_x, b_x}, grantee \in Grantees :
          geodb_revoke_access_from_collection(usr, collection, grantee)
    \/ \E usr \in Users, collection \in {a_x, b_x} : geodb_publish_collection(usr, collection)
    \/ \E usr \in Users, collection \in {a_x, b_x} : geodb_unpublish_collection(usr, collection)
    \/ \E usr \in Users, properties \in PropLists :
          geodb_add_properties(usr, a_x, properties)
    \/ \E usr \in Users, properties \in PropLists :
          geodb_drop_properties(usr, a_x, properties)
    \/ \E usr \in Users, collection \in {a_x, b_x} : geodb_get_pg(usr, collection)

SpecGrant == InitGrant /\ [][NextGrant]_vars

(***************************************************************************)
(* The query functions.  What a call's WHERE clause, bounding box and      *)
(* comparison mode select is given as the set of row ids it matches.       *)
(***************************************************************************)
MaxFeatures == 2     \* rows a collection holds
RowIds == 1..MaxFeatures

\* SELECT JSON_AGG(src) FROM (...) AS src: the aggregate value, NULL over no row
JSON_AGG(S) == [null |-> S = {}, items |-> S]

\* the rows the statement SELECT <aggregate> FROM (...) returns, whatever the
\* inner query selected: an aggregate without GROUP BY returns one row
AggregateRowCount(S) == Cardinality({JSON_AGG(S)})

NoValue == JSON_AGG({})

\* what reading collection as usr raises, "" when it can be read
ReadError(usr, collection) ==
    IF collection \notin DOMAIN tables THEN "undefined_table"
    ELSE IF ~HoldsTablePriv(tables, usr, collection, "SELECT")
         THEN "permission denied for table"
    ELSE ""

\* geodb_get_pg(collection, "where" => ...)
get_pg_where(usr, collection, matched) ==
    LET err == ReadError(usr, collection)
        selected == tables[collection].rows \cap matched
        row_ct == AggregateRowCount(selected)
    IN  IF err # "" THEN [res |-> err, val |-> NoValue]
        ELSE IF row_ct < 1 THEN [res |-> "Empty result", val |-> NoValue]
        ELSE [res |-> "success", val |-> JSON_AGG(selected)]

\* the CASE comparison_mode of geodb_get_by_bbox and geodb_count_by_bbox
ComparisonModes ==
    {"within", "contains", "intersects", "touches", "overlaps", "crosses",
     "disjoint", "equals"}

\* a variant that falls back to ST_Within
bbox_func_default(comparison_mode) ==
    IF comparison_mode \in ComparisonModes THEN "ST_" \o comparison_mode
    ELSE "ST_within"

bbox_func(comparison_mode) ==
    IF comparison_mode \in ComparisonModes THEN "ST_" \o comparison_mode
    ELSE "data_exception"

get_by_bbox(usr, collection, comparison_mode, matched) ==
    LET f == bbox_func(comparison_mode)
        err == ReadError(usr, collection)
        selected == tables[collection].rows \cap matched
        row_ct == AggregateRowCount(selected)
    IN  IF f = "data_exception" THEN [res |-> "data_exception", val |-> NoValue]
        ELSE IF err # "" THEN [res |-> err, val |-> NoValue]
        ELSE IF row_ct < 1 THEN [res |-> "Only 0 rows!", val |-> NoValue]
        ELSE [res |-> "success", val |-> JSON_AGG(selected)]

\* SELECT JSON_AGG(src) FROM (SELECT COUNT(*) as ct FROM ... ) as src
count_by_bbox(usr, collection, comparison_mode, matched) ==
    LET f == bbox_func(comparison_mode)
        err == ReadError(usr, collection)
        ct == Cardinality(tables[collection].rows \cap matched)
        row_ct == AggregateRowCount({ct})
    IN  IF f = "data_exception" THEN [res |-> "data_exception", val |-> NoValue]
        ELSE IF err # "" THEN [res |-> err, val |-> NoValue]
        ELSE IF row_ct < 1 THEN [res |-> "Only 0 rows!", val |-> NoValue]
        ELSE [res |-> "success", val |-> JSON_AGG({ct})]

\* a call that returns a value
CallV(op, usr, args, o) ==
    [op |-> op, usr |-> usr, args |-> args, res |-> o.res, who |-> NoName, val |-> o.val]

geodb_get_pg_where(usr, collection, matched) ==
    /\ last' = CallV("get_pg", usr, <<collection, matched>>,
                     get_pg_where(usr, collection, matched))
    /\ UNCHANGED <<roles, members, registry, tables, admin_option, pending>>

geodb_get_by_bbox(usr, collection, comparison_mode, matched) ==
    /\ last' = CallV("get_by_bbox", usr, <<collection, comparison_mode, matched>>,
                     get_by_bbox(usr, collection, comparison_mode, matched))
    /\ UNCHANGED <<roles, members, registry, tables, admin_option, pending>>

geodb_count_by_bbox(usr, collection, comparison_mode, matched) ==
    /\ last' = CallV("count_by_bbox", usr, <<collection, comparison_mode, matched>>,
                     count_by_bbox(usr, collection, comparison_mode, matched))
    /\ UNCHANGED <<roles, members, registry, tables, admin_option, pending>>

(***************************************************************************)
(* geodb_estimate_collection_count(collection), and the engine's VACUUM,   *)
(* which fills relpages and reltuples of pg_class                          *)
(***************************************************************************)
\* pg_relation_size(oid) / 8192: the rows of a modelled collection fit one page
Pages(rows) == IF rows = {} THEN 0 ELSE 1

relpages(T, t) == IF T[t].analysed THEN Pages(T[t].rows) ELSE 0

\* reltuples of a table never vacuumed or analysed: 0 on engines before
\* PostgreSQL 14, -1 ("unknown") from PostgreSQL 14 on
NeverAnalysedTuples == {0, -1}

reltuples(T, t) == IF T[t].analysed THEN {Cardinality(T[t].rows)} ELSE NeverAnalysedTuples

Number(n) == [null |-> FALSE, n |-> n]
Null == [null |-> TRUE, n |-> 0]

\* tuples: the value of reltuples the engine holds for the collection
estimate_collection_count(collection, tuples) ==
    IF collection \notin DOMAIN tables
    THEN [res |-> "success", val |-> Null]      \* both SELECTs find no row
    ELSE LET pages_size == relpages(tables, collection)
         IN  IF pages_size > 0
             THEN [res |-> "success",
                   val |-> Number((tuples \div pages_size) * Pages(tables[collection].rows))]
             ELSE [res |-> "success", val |-> Number(tuples)]

geodb_estimate_collection_count(usr, collection) ==
    /\ \E tuples \in IF collection \in DOMAIN tables
                     THEN reltuples(tables, collection) ELSE {0} :
          last' = CallV("estimate_collection_count", usr, <<collection>>,
                        estimate_collection_count(collection, tuples))
    /\ UNCHANGED <<roles, members, registry, tables, admin_option, pending>>

Vacuum(collection) ==
    /\ collection \in DOMAIN tables
    /\ ~tables[collection].analysed
    /\ tables' = [tables EXCEPT ![collection].analysed = TRUE]
    /\ last' = Call("VACUUM", postgres, <<collection>>, "success", NoName)
    /\ UNCHANGED <<roles, members, registry, admin_option, pending>>

(***************************************************************************)
(* SpecQuery: the query functions on a collection a_x that alice made and  *)
(* that holds some rows.                                                   *)
(***************************************************************************)
Predicates == SUBSET RowIds
Modes == ComparisonModes \cup {"bogus", "Within", ""}

InitQuery ==
    /\ roles = Users \cup Groups \cup {manager}
    /\ members = {<<manager, grp>>, <<manager, hgrp>>}
    /\ registry = {Row(alice, alice), Row(bob, bob)}
    /\ admin_option = {<<manager, grp>>, <<manager, hgrp>>}
    /\ pending = <<>>
    /\ \E rows \in SUBSET RowIds :
          LET s1 == CreateTable(<<>>, alice, a_x)
              s2 == CreateTrigger(s1.tables, alice, TrigName(a_x), a_x)
              s3 == GrantOnTable(s2.tables, alice, a_x, TablePrivs, postgres)
          IN  tables = [s3.tables EXCEPT ![a_x].rows = rows]
    /\ last = Call("create_collection", alice, <<a_x>>, "success", NoName)

NextQuery ==
    \/ \E usr \in Users, collection \in {a_x, b_x}, matched \in Predicates :
          geodb_get_pg_where(usr, collection, matched)
    \/ \E usr \in Users, collection \in {a_x, b_x}, mode \in Modes, matched \in Predicates :
          geodb_get_by_bbox(usr, collection, mode, matched)
    \/ \E usr \in Users, collection \in {a_x, b_x}, mode \in Modes, matched \in Predicates :
          geodb_count_by_bbox(usr, collection, mode, matched)
    \/ \E usr \in Users, collection \in {a_x, b_x} :
          geodb_estimate_collection_count(usr, collection)
    \/ \E usr \in Users : geodb_publish_collection(usr, a_x)
    \/ Vacuum(a_x)

SpecQuery == InitQuery /\ [][NextQuery]_vars

(***************************************************************************)
(* geodb_get_index_name(collection, property).  Names are sequences of     *)
(* characters.                                                             *)
(***************************************************************************)
MaxIdentLen == 63
MaxCollLen == 12     \* characters of a collection name passed
MinPropLen == 48     \* characters of a property name passed, from
MaxPropLen == 60     \* and up to

Digits == <<"0", "1", "2", "3", "4", "5", "6", "7", "8", "9">>

\* the collection name of n characters 1234567890123...
CollOfLen(n) == [i \in 1..n |-> Digits[(i % 10) + 1]]

\* the property name of n characters ppp...
PropOfLen(n) == [i \in 1..n |-> "p"]

\* SUBSTR(s, 2, LENGTH(s)): s without its first character, '' of ''
SUBSTR2(s) == IF s = <<>> THEN <<>> ELSE Tail(s)

\* format('idx_%s_%s', property, collection)
FormatIdx(property, collection) ==
    <<"i", "d", "x", "_">> \o property \o <<"_">> \o collection

\* the WHILE loop from the state (idx_name, collection_shortened); a pass
\* that leaves collection_shortened as it was is repeated for ever
RECURSIVE index_name_loop(_, _)
index_name_loop(property, collection_shortened) ==
    LET idx_name == FormatIdx(property, collection_shortened)
    IN  IF ~(Len(idx_name) > MaxIdentLen)
        THEN [res |-> "success", val |-> idx_name]
        ELSE IF SUBSTR2(collection_shortened) = collection_shortened
             THEN [res |-> "never returns", val |-> <<>>]
        ELSE index_name_loop(property, SUBSTR2(collection_shortened))

get_index_name(collection, property) == index_name_loop(property, collection)

geodb_get_index_name(usr, collection, property) ==
    /\ last' = CallV("get_index_name", usr, <<collection, property>>,
                     get_index_name(collection, property))
    /\ UNCHANGED <<roles, members, registry, tables, admin_option, pending>>

NextIndex ==
    \E usr \in Users, n \in 1..MaxCollLen, m \in MinPropLen..MaxPropLen :
        geodb_get_index_name(usr, CollOfLen(n), PropOfLen(m))

SpecIndex == Init /\ [][NextIndex]_vars

(***************************************************************************)
(* User and group management: geodb_register_user, geodb_user_exists,      *)
(* geodb_drop_user and geodb_create_role.                                  *)
(***************************************************************************)
geodb_admin == <<"geodb_admin">>   \* CREATE ROLE geodb_admin NOINHERIT
LoginRoles == Users \cup {manager}

\* rows of geodb_user_info whose subscription is LIKE '%manage%'
Managers == {manager}

\* rolcreaterole or rolsuper: the install script gives geodb_admin neither
has_createrole(usr) == usr = postgres

\* current_setting('role'): the role the session was switched to, as the
\* request router does for every caller; 'none' for a direct login
current_setting_role(usr) == IF usr = postgres THEN <<"none">> ELSE usr

\* vars a role-management function may change, and what it returns
RoleState(res, r, m, a, reg) ==
    [res |-> res, who |-> NoName, roles |-> r, members |-> m, admin_option |-> a,
     registry |-> reg]
Refused(res) == RoleState(res, roles, members, admin_option, registry)

\* a variant without the EXCEPTION WHEN duplicate_object block
register_user_strict(usr, user_name) ==
    IF ~has_createrole(usr) THEN Refused("permission denied to create role")
    ELSE IF user_name \in roles THEN Refused("duplicate_object")
    ELSE RoleState("success", roles \cup {user_name},
                   members \cup {<<usr, user_name>>}, admin_option,
                   registry \cup {Row(user_name, user_name)})

register_user(usr, user_name) ==
    IF ~has_createrole(usr) THEN Refused("permission denied to create role")
    ELSE IF user_name \in roles
    THEN \* duplicate_object: RAISE NOTICE '<role user_name already exists>, skipping'
         [RoleState("success", roles, members, admin_option,
                    registry \cup {Row(user_name, user_name)})
          EXCEPT !.who = user_name]
    ELSE \* CREATE ROLE %I LOGIN ROLE current_user, then
         \* INSERT ... ON CONFLICT ON CONSTRAINT unique_db_name_owner DO NOTHING
         RoleState("success", roles \cup {user_name},
                   members \cup {<<usr, user_name>>}, admin_option,
                   registry \cup {Row(user_name, user_name)})

\* objects that keep DROP ROLE from dropping role: the EXECUTE and CREATE
\* privileges geodb_register_user granted it, tables it owns or has
\* privileges on
HasDependentObjects(role) ==
    \/ role \in LoginRoles
    \/ \E t \in DOMAIN tables :
          \/ tables[t].owner = role
          \/ \E x \in tables[t].acl : x[1] = role

\* DROP ROLE IF EXISTS %I
drop_user(usr, user_name) ==
    IF ~has_createrole(usr) THEN Refused("permission denied to drop role")
    ELSE IF user_name \notin roles THEN Refused("success")
    ELSE IF HasDependentObjects(user_name) THEN Refused("dependent_objects_still_exist")
    ELSE RoleState("success", roles \ {user_name},
                   {x \in members : user_name \notin {x[1], x[2]}},
                   {x \in admin_option : user_name \notin {x[1], x[2]}},
                   registry)

\* SECURITY DEFINER: the statements run as the owner of the function
create_role(usr, user_name, user_group) ==
    LET manage == Cardinality({m \in Managers : m = user_name})
    IN  IF ~(current_setting_role(usr) = geodb_admin) /\ manage = 0
        THEN Refused("Insufficient subscription for user")
        ELSE IF user_group \in roles \cup {postgres, geodb_admin}
        THEN Refused("duplicate_object")
        ELSE IF user_name \notin roles \cup {postgres, geodb_admin}
        THEN Refused("undefined_object")
        ELSE RoleState("success", roles \cup {user_group},
                       members \cup {<<user_name, user_group>>},
                       admin_option \cup {<<user_name, user_group>>},
                       registry)

RoleCall(op, usr, args, o) ==
    /\ roles' = o.roles
    /\ members' = o.members
    /\ admin_option' = o.admin_option
    /\ registry' = o.registry
    /\ last' = Call(op, usr, args, o.res, o.who)
    /\ UNCHANGED <<tables, pending>>

geodb_register_user(usr, user_name) ==
    /\ Cardinality(registry \cup {Row(user_name, user_name)}) <= MaxRows
    /\ RoleCall("register_user", usr, <<user_name>>, register_user(usr, user_name))

geodb_drop_user(usr, user_name) ==
    RoleCall("drop_user", usr, <<user_name>>, drop_user(usr, user_name))

geodb_create_role(usr, user_name, user_group) ==
    RoleCall("create_role", usr, <<user_name, user_group>>,
             create_role(usr, user_name, user_group))

\* SELECT EXISTS (SELECT true FROM pg_roles WHERE rolname = user_name)
geodb_user_exists(usr, user_name) ==
    /\ last' = CallV("user_exists", usr, <<user_name>>,
                     [res |-> "success", val |-> user_name \in roles])
    /\ UNCHANGED <<roles, members, registry, tables, admin_option, pending>>

(***************************************************************************)
(* SpecUsers: after the install script and the registration of manager,    *)
(* the user-management functions and the functions that delete registry    *)
(* rows, called by the superuser, by geodb_admin and by registered roles.  *)
(***************************************************************************)
InitUsers ==
    /\ roles = {manager}
    /\ members = {}
    /\ registry = {Row(manager, manager)}
    /\ admin_option = {}
    /\ pending = <<>>
    /\ tables = <<>>
    /\ last = Call("register_user", postgres, <<manager>>, "success", NoName)

Callers == {postgres, geodb_admin} \cup (roles \cap LoginRoles)

NextUsers ==
    \/ \E usr \in Callers, user_name \in Users : geodb_register_user(usr, user_name)
    \/ \E usr \in Callers, user_name \in Users \cup {grp} : geodb_user_exists(usr, user_name)
    \/ \E usr \in Callers, user_name \in Users \cup {grp} : geodb_drop_user(usr, user_name)
    \/ \E usr \in Callers, user_name \in {manager, alice} :
          geodb_create_role(usr, user_name, grp)
    \/ \E usr \in Callers, user_name \in Users :
          /\ grp \in roles
          /\ geodb_group_grant(usr, grp, user_name)
    \/ \E usr \in Callers, user_name \in Users :
          /\ grp \in roles
          /\ geodb_group_revoke(usr, grp, user_name)
    \/ \E usr \in Callers, database \in Users : geodb_truncate_database(usr, database)
    \/ \E usr \in Callers, database \in Users :
          geodb_group_unpublish_database(usr, database, database)

SpecUsers == InitUsers /\ [][NextUsers]_vars

(***************************************************************************)
(* geodb_create_collections(collections) and                               *)
(* geodb_drop_collections(collections, cascade): one call of the function  *)
(* is one statement, and what an error undoes is the whole statement       *)
(***************************************************************************)
MaxBatch == 2     \* entries of a batch

Entry(collection, properties) == [collection |-> collection, properties |-> properties]

\* the FOR loop over json_each(collections) from entry k on, on the catalog
\* T the transaction has reached; k |-> the entry that raised, 0 if none
RECURSIVE create_collections_loop(_, _, _, _)
create_collections_loop(T, usr, collections, k) ==
    IF k > Len(collections) THEN [res |-> "success", who |-> NoName, tables |-> T, k |-> 0]
    ELSE LET o == create_collection_in(T, usr, collections[k].collection,
                                       collections[k].properties)
         IN  IF o.res # "success"
             THEN [res |-> o.res, who |-> o.who, tables |-> T, k |-> k]
             ELSE create_collections_loop(o.tables, usr, collections, k + 1)

\* a variant in which the entries created before the error stay
create_collections_partial(usr, collections) ==
    create_collections_loop(tables, usr, collections, 1)

create_collections(usr, collections) ==
    LET o == create_collections_loop(tables, usr, collections, 1)
    IN  IF o.res # "success" THEN [o EXCEPT !.tables = tables] ELSE o

\* a call of a batch function: val is the entry named in the error's context
CallK(op, usr, args, o) ==
    [op |-> op, usr |-> usr, args |-> args, res |-> o.res, who |-> o.who, val |-> o.k]

geodb_create_collections(usr, collections) ==
    LET o == create_collections(usr, collections)
    IN  /\ Cardinality(DOMAIN o.tables) <= MaxTables
        /\ tables' = o.tables
        /\ last' = CallK("create_collections", usr, <<collections>>, o)
        /\ UNCHANGED <<roles, members, registry, admin_option, pending>>

\* DROP TABLE %I CASCADE
DropTable(T, usr, t) ==
    IF t \notin DOMAIN T THEN Err("undefined_table", T)
    ELSE IF ~OwnsTable(T, usr, t) THEN Err("must be owner of table", T)
    ELSE Ok(Without(T, t))

RECURSIVE drop_collections_loop(_, _, _, _)
drop_collections_loop(T, usr, collections, k) ==
    IF k > Len(collections) THEN [res |-> "success", who |-> NoName, tables |-> T, k |-> 0]
    ELSE LET r == DropTable(T, usr, collections[k])
         IN  IF r.err # ""
             THEN [res |-> r.err, who |-> NoName, tables |-> T, k |-> k]
             ELSE drop_collections_loop(r.tables, usr, collections, k + 1)

drop_collections(usr, collections) ==
    LET o == drop_collections_loop(tables, usr, collections, 1)
    IN  IF o.res # "success" THEN [o EXCEPT !.tables = tables] ELSE o

geodb_drop_collections(usr, collections) ==
    LET o == drop_collections(usr, collections)
    IN  /\ tables' = o.tables
        /\ last' = CallK("drop_collections", usr, <<collections>>, o)
        /\ UNCHANGED <<roles, members, registry, admin_option, pending>>

(***************************************************************************)
(* SpecBatch: the batch functions called by alice and bob.                 *)
(***************************************************************************)
BatchNames == {a_x, b_x, ba_x}
Entries == {Entry(c, p) : c \in BatchNames, p \in {<<>>, <<<<"p">>>>}}
SeqsUpTo(S, n) == UNION {[1..m -> S] : m \in 1..n}

NextBatch ==
    \/ \E usr \in Users, collections \in SeqsUpTo(Entries, MaxBatch) :
          geodb_create_collections(usr, collections)
    \/ \E usr \in Users, collections \in SeqsUpTo(BatchNames, MaxBatch) :
          geodb_drop_collections(usr, collections)

SpecBatch == Init /\ [][NextBatch]_vars

(***************************************************************************)
(* geodb_create_collection in concurrent sessions.  A call is the check of *)
(* geodb_user_allowed, then CREATE TABLE and the statements after it on a  *)
(* table no other session sees yet, then the commit when the function has  *)
(* returned.                                                               *)
(***************************************************************************)
Sessions == {1, 2}

Idle == [pc |-> "idle", usr |-> NoName, collection |-> NoName, overlap |-> FALSE,
         res |-> "", entry |-> <<>>]

\* a variant in which no session waits for another
NeverBlocked(s) == FALSE

\* another session holds an uncommitted table of the name session s wants:
\* the engine makes s wait at the unique index of the catalog
Blocked(s) ==
    \E o \in Sessions \ {s} :
        pending[o].pc = "created" /\ pending[o].collection = pending[s].collection

\* what the engine raises for a name taken by a table committed while the
\* call was in progress (overlap), or before it began
DuplicateErrors(overlap) ==
    IF overlap THEN {"duplicate_table", "unique_violation"} ELSE {"duplicate_table"}

\* usr := geodb_whoami(); SELECT geodb_user_allowed(collection, usr) INTO owns
RaceCall(s, usr, collection) ==
    /\ pending[s].pc = "idle"
    /\ IF geodb_user_allowed(collection, usr) = 0
       THEN /\ pending' = [pending EXCEPT ![s] =
                              [Idle EXCEPT !.pc = "done", !.usr = usr,
                                           !.collection = collection,
                                           !.res = "No access for user"]]
            /\ last' = Call("create_collection", usr, <<collection>>,
                            "No access for user", usr)
       ELSE /\ pending' = [pending EXCEPT ![s] =
                              [Idle EXCEPT !.pc = "called", !.usr = usr,
                                           !.collection = collection]]
            /\ UNCHANGED last
    /\ UNCHANGED <<roles, members, registry, tables, admin_option>>

\* CREATE TABLE ... ALTER TABLE ... OWNER, the new table not yet committed
RaceCreate(s) ==
    LET p == pending[s]
        o == create_collection_in(tables, p.usr, p.collection, <<>>)
    IN  /\ p.pc = "called"
        /\ IF o.res # "success"
           THEN \E res \in IF o.res = "duplicate_table"
                           THEN DuplicateErrors(p.overlap) ELSE {o.res} :
                   /\ pending' = [pending EXCEPT ![s].pc = "done", ![s].res = res]
                   /\ last' = Call("create_collection", p.usr, <<p.collection>>, res, NoName)
           ELSE /\ ~Blocked(s)
                /\ pending' = [pending EXCEPT ![s].pc = "created",
                                              ![s].entry = o.tables[p.collection]]
                /\ UNCHANGED last
        /\ UNCHANGED <<roles, members, registry, tables, admin_option>>

\* the function returns and its statement commits
RaceReturn(s) ==
    LET p == pending[s]
    IN  /\ p.pc = "created"
        /\ tables' = With(tables, p.collection, p.entry)
        /\ pending' = [o \in Sessions |->
                          IF o = s THEN [p EXCEPT !.pc = "done", !.res = "success"]
                          ELSE IF pending[o].pc = "called"
                                  /\ pending[o].collection = p.collection
                               THEN [pending[o] EXCEPT !.overlap = TRUE]
                          ELSE pending[o]]
        /\ last' = Call("create_collection", p.usr, <<p.collection>>, "success", NoName)
        /\ UNCHANGED <<roles, members, registry, admin_option>>

(***************************************************************************)
(* SpecRace: two sessions, each calling geodb_create_collection once.      *)
(* alice owns the databases a and ba; bob passes geodb_user_allowed for    *)
(* ba_x as well.                                                           *)
(***************************************************************************)
InitRace ==
    /\ roles = Users \cup Groups \cup {manager}
    /\ members = {<<manager, grp>>, <<manager, hgrp>>}
    /\ registry = {Row(alice, alice), Row(bob, bob), Row(<<"b", "a">>, alice)}
    /\ admin_option = {<<manager, grp>>, <<manager, hgrp>>}
    /\ pending = [s \in Sessions |-> Idle]
    /\ tables = <<>>
    /\ last = Call("init", NoName, <<>>, "success", NoName)

NextRace ==
    \/ \E s \in Sessions, usr \in Users, collection \in {a_x, ba_x} :
          RaceCall(s, usr, collection)
    \/ \E s \in Sessions : RaceCreate(s)
    \/ \E s \in Sessions : RaceReturn(s)

SpecRace == InitRace /\ [][NextRace]_vars

(***************************************************************************)
(* SpecCopy: geodb_copy_collection of a collection a_x that alice made and *)
(* that holds some rows, into alice's and into bob's database.             *)
(***************************************************************************)
a_y == Collection(alice, <<"y">>)

NextCopy ==
    \/ \E usr \in Users, new_collection \in {a_y, b_x} :
          geodb_copy_collection(usr, a_x, new_collection)
    \/ \E usr \in Users, new_collection \in {a_y, b_x} :
          geodb_copy_collection(usr, new_collection, a_x)
    \/ \E usr \in Users, grantee \in Grantees :
          geodb_grant_access_to_collection(usr, a_x, grantee)
    \/ \E usr \in Users, grantee \in Grantees :
          geodb_revoke_access_from_collection(usr, a_x, grantee)
    \/ \E usr \in Users, properties \in {<<<<"p">>>>} :
          geodb_add_properties(usr, a_x, properties)
    \/ \E usr \in Users, collections \in {<<a_y>>, <<b_x>>} :
          geodb_drop_collections(usr, collections)

SpecCopy == InitQuery /\ [][NextCopy]_vars

(***************************************************************************)
(* geodb_get_pg(collection, select, where, group, order, limit, offset):   *)
(* the clauses it appends to the query and the rows the query returns.     *)
(* where is given by the rows it matches, group and order are by id.       *)
(***************************************************************************)
Given(v) == [null |-> FALSE, v |-> v]
NotGiven == [null |-> TRUE, v |-> 0]

\* the arguments "where", "group", "order", "limit", "offset"; DEFAULT NULL
QueryArgs ==
    [where : {[null |-> TRUE, v |-> {}]} \cup {[null |-> FALSE, v |-> m] : m \in {{1}, RowIds}},
     group : {NotGiven, Given(1)},
     order : {NotGiven, Given(1)},
     limit : {NotGiven} \cup {Given(n) : n \in 0..MaxFeatures},
     offset : {NotGiven} \cup {Given(n) : n \in 0..MaxFeatures}]

\* IF "limit" IS NOT NULL AND "offset" IS NOT NULL THEN qry := qry || 'OFFSET %s '
offset_appended(a) == ~a.limit.null /\ ~a.offset.null

\* the clauses of qry after the five IF statements
query_clauses(a) ==
    {c \in {"WHERE", "GROUP BY", "ORDER BY", "LIMIT", "OFFSET"} :
        \/ c = "WHERE" /\ ~a.where.null
        \/ c = "GROUP BY" /\ ~a.group.null
        \/ c = "ORDER BY" /\ ~a.order.null
        \/ c = "LIMIT" /\ ~a.limit.null
        \/ c = "OFFSET" /\ offset_appended(a)}

\* the orders in which a scan may return the rows S
Perms(S) == {f \in [1..Cardinality(S) -> S] : \A i, j \in DOMAIN f : i # j => f[i] # f[j]}

\* ORDER BY id
IsAscending(f) == \A i, j \in DOMAIN f : i < j => f[i] < f[j]

Skip(f, n) == SubSeq(f, n + 1, Len(f))
Take(f, n) == SubSeq(f, 1, IF n < Len(f) THEN n ELSE Len(f))

\* the rows qry returns when the scan yields the selected rows in order scan
run_query(a, scan) ==
    LET cl == query_clauses(a)
        skipped == IF "OFFSET" \in cl THEN Skip(scan, a.offset.v) ELSE scan
    IN  IF "LIMIT" \in cl THEN Take(skipped, a.limit.v) ELSE skipped

\* JSON_AGG over the rows of the inner query, in their order
JSON_AGG_rows(f) == [null |-> Len(f) = 0, items |-> f, clauses |-> {}]

get_pg_query(usr, collection, a, scan) ==
    LET err == ReadError(usr, collection)
    IN  IF err # "" THEN [res |-> err, val |-> JSON_AGG_rows(<<>>)]
        ELSE [res |-> "success",
              val |-> [JSON_AGG_rows(run_query(a, scan))
                       EXCEPT !.clauses = query_clauses(a)]]

geodb_get_pg_query(usr, collection, a) ==
    /\ \E scan \in IF collection \in DOMAIN tables
                   THEN {f \in Perms(IF a.where.null THEN tables[collection].rows
                                     ELSE tables[collection].rows \cap a.where.v) :
                            "ORDER BY" \in query_clauses(a) => IsAscending(f)}
                   ELSE {<<>>} :
          last' = CallV("get_pg_query", usr, <<collection, a>>,
                        get_pg_query(usr, collection, a, scan))
    /\ UNCHANGED <<roles, members, registry, tables, admin_option, pending>>

NextFilter ==
    \/ \E usr \in Users, a \in QueryArgs : geodb_get_pg_query(usr, a_x, a)
    \/ \E usr \in Users : geodb_publish_collection(usr, a_x)

SpecFilter == InitQuery /\ [][NextFilter]_vars

(***************************************************************************)
(* geodb_get_by_bbox with its "where", op, "limit" and "offset" arguments. *)
(* The rectangle and the comparison mode are given by the rows whose       *)
(* geometry they match, "where" by the rows it matches.                    *)
(***************************************************************************)
\* "where" text DEFAULT 'id > 0'
where_default == {id \in RowIds : id > 0}

\* ORDER BY id
SortedRows(S) == CHOOSE f \in Perms(S) : IsAscending(f)

\* WHERE (%s) %s %s(<rectangle>, geometry): "where" op bbox_func(...)
bbox_selected(rows, where_matched, op, bbox_matched) ==
    IF op = "AND" THEN rows \cap (where_matched \cap bbox_matched)
    ELSE rows \cap (where_matched \cup bbox_matched)

\* IF "limit" > 0 ... IF "offset" > 0 ...
bbox_page(f, limit, offset) ==
    LET skipped == IF offset > 0 THEN Skip(f, offset) ELSE f
    IN  IF limit > 0 THEN Take(skipped, limit) ELSE skipped

get_by_bbox_op(usr, collection, comparison_mode, bbox_matched, a) ==
    LET f == bbox_func(comparison_mode)
        err == ReadError(usr, collection)
        where_matched == IF a.where.null THEN where_default ELSE a.where.v
        selected == bbox_selected(tables[collection].rows, where_matched, a.op,
                                  bbox_matched)
        page == bbox_page(SortedRows(selected), a.limit, a.offset)
    IN  IF f = "data_exception" THEN [res |-> "data_exception", val |-> JSON_AGG_rows(<<>>)]
        ELSE IF err # "" THEN [res |-> err, val |-> JSON_AGG_rows(<<>>)]
        ELSE [res |-> "success", val |-> JSON_AGG_rows(page)]

geodb_get_by_bbox_op(usr, collection, comparison_mode, bbox_matched, a) ==
    /\ last' = CallV("get_by_bbox_op", usr, <<collection, bbox_matched, a>>,
                     get_by_bbox_op(usr, collection, comparison_mode, bbox_matched, a))
    /\ UNCHANGED <<roles, members, registry, tables, admin_option, pending>>

BboxArgs ==
    [where : {[null |-> TRUE, v |-> {}], [null |-> FALSE, v |-> {1}]},
     op : {"AND", "OR"},
     limit : 0..1,
     offset : 0..1]

NextBbox ==
    \/ \E usr \in Users, mode \in {"within", "intersects", "bogus"},
          bbox_matched \in Predicates, a \in BboxArgs :
          geodb_get_by_bbox_op(usr, a_x, mode, bbox_matched, a)
    \/ \E usr \in Users : geodb_publish_collection(usr, a_x)

SpecBbox == InitQuery /\ [][NextBbox]_vars

(***************************************************************************)
(* geodb_get_my_collections(database): one row (owner, database,           *)
(* collection) for every table of schema public the caller can see         *)
(***************************************************************************)
\* information_schema.tables: the tables the caller owns or holds a privilege on
VisibleTables(usr) == {t \in DOMAIN tables : AnyTablePriv(tables, usr, t)}

\* the rows of geodb_user_databases WHERE table_name LIKE name || '_%'
MatchingRows(table_name) ==
    {r \in registry : Like(table_name, r.name \o <<"_", "%">>) = TRUE}

\* ... ORDER BY name DESC LIMIT 1: the rows with the last name.  The names
\* that match are beginnings of table_name, and of two beginnings the longer
\* sorts after the shorter.
LastRows(table_name) ==
    {r \in MatchingRows(table_name) :
        \A q \in MatchingRows(table_name) : Len(q.name) <= Len(r.name)}

\* the first place at which pattern occurs in text, 0 if none
FirstMatch(text, pattern) ==
    LET at == {i \in 1..(Len(text) - Len(pattern) + 1) :
                  SubSeq(text, i, i + Len(pattern) - 1) = pattern}
    IN  IF at = {} THEN 0 ELSE CHOOSE i \in at : \A j \in at : i <= j

\* regexp_replace(text, pattern, ''): text without its first match
regexp_replace(text, pattern) ==
    LET i == FirstMatch(text, pattern)
    IN  IF i = 0 THEN text
        ELSE SubSeq(text, 1, i - 1) \o SubSeq(text, i + Len(pattern), Len(text))

\* the row reported for table_name when the two subqueries return rows rdb
\* and rowner of LastRows; all NULL when no name matches
listed_row(table_name, rdb, rowner) ==
    [owner |-> rowner.owner, database |-> rdb.name,
     collection |-> regexp_replace(table_name, rdb.name \o <<"_">>)]

NullRow == [owner |-> NoName, database |-> NoName, collection |-> NoName]

\* pick: for each visible table, the rows the two LIMIT 1 subqueries return
get_my_collections(usr, database, pick) ==
    LET inf == {IF LastRows(t) = {} THEN NullRow
                ELSE listed_row(t, pick[t][1], pick[t][2]) : t \in VisibleTables(usr)}
    IN  IF database = NoName THEN inf
        ELSE {r \in inf : r.database = database}

geodb_get_my_collections(usr, database) ==
    /\ \E pick \in [VisibleTables(usr) -> registry \X registry] :
          /\ \A t \in VisibleTables(usr) :
                LastRows(t) # {} => pick[t][1] \in LastRows(t) /\ pick[t][2] \in LastRows(t)
          /\ last' = CallV("get_my_collections", usr, <<database>>,
                           [res |-> "success",
                            val |-> get_my_collections(usr, database, pick)])
    /\ UNCHANGED <<roles, members, registry, tables, admin_option, pending>>

(***************************************************************************)
(* SpecList: databases, collections and their listing.                     *)
(***************************************************************************)
NextList ==
    \/ \E usr \in Users : geodb_create_database(usr, <<"b", "a">>)
    \/ \E usr \in Users : geodb_group_publish_database(usr, usr, grp)
    \/ \E usr \in Users, collection \in CollNames :
          geodb_create_collection(usr, collection, <<>>)
    \/ \E usr \in Users, collection \in CollNames :
          geodb_drop_collections(usr, <<collection>>)
    \/ \E usr \in Users, database \in {NoName, alice} :
          geodb_get_my_collections(usr, database)

SpecList == Init /\ [][NextList]_vars

(***************************************************************************)
(* The calls geodb_user_allowed(collection, usr) makes.  A call returns    *)
(* 0 or 1, or it never returns: a call for a principal whose call is still *)
(* in progress meets the same registry and the same roles, and so calls    *)
(* itself again.  recursed is the set of principals the nested calls were  *)
(* made for; order is the order in which the FOR loop visits pg_roles.     *)
(***************************************************************************)
\* a variant that also asks the role itself
any_groupname(groupname, usr) == TRUE

\* if groupname != usr then
other_groupname(groupname, usr) == groupname # usr

Returned(v, rec) == [res |-> "success", val |-> v, recursed |-> rec]
NeverReturns(rec) == [res |-> "never returns", val |-> 0, recursed |-> rec]

RECURSIVE user_allowed_call(_, _, _, _)
RECURSIVE user_allowed_loop(_, _, _, _, _, _)
user_allowed_loop(collection, usr, active, order, i, rec) ==
    IF i > Len(order) THEN Returned(0, rec)
    ELSE LET groupname == order[i]
         IN  IF pg_has_role(usr, groupname) /\ other_groupname(groupname, usr)
             THEN IF groupname \in active
                  THEN NeverReturns(rec \cup {groupname})
                  ELSE LET r == user_allowed_call(collection, groupname, active, order)
                           rec2 == rec \cup {groupname} \cup r.recursed
                       IN  IF r.res # "success" THEN NeverReturns(rec2)
                           ELSE IF r.val > 0 THEN Returned(1, rec2)
                           ELSE user_allowed_loop(collection, usr, active, order, i + 1, rec2)
             ELSE user_allowed_loop(collection, usr, active, order, i + 1, rec)

user_allowed_call(collection, usr, active, order) ==
    LET ct == Cardinality({r \in registry :
                  Like(collection, r.name \o <<"_", "%">>) /\ r.owner = usr})
    IN  IF ct > 0 THEN Returned(1, {})
        ELSE user_allowed_loop(collection, usr, active \cup {usr}, order, 1, {})

geodb_user_allowed_call(usr, collection, principal) ==
    \* the roles pg_has_role can hold for are the principal and the groups
    /\ \E order \in Perms(Groups \cup {principal}) :
          last' = [op |-> "user_allowed", usr |-> usr, args |-> <<collection, principal>>,
                   who |-> NoName, order |-> order]
                  @@ user_allowed_call(collection, principal, {}, order)
    /\ UNCHANGED <<roles, members, registry, tables, admin_option, pending>>

(***************************************************************************)
(* SpecAllowed: group membership, shared databases and the permission test *)
(***************************************************************************)
NextAllowed ==
    \/ \E user_group \in Groups, user_name \in Users \cup Groups :
          geodb_group_grant(manager, user_group, user_name)
    \/ \E user_group \in Groups, user_name \in Users \cup Groups :
          geodb_group_revoke(manager, user_group, user_name)
    \/ \E user_group \in Groups : geodb_group_publish_database(alice, alice, user_group)
    \/ \E principal \in roles : geodb_user_allowed_call(postgres, a_x, principal)

SpecAllowed == Init /\ [][NextAllowed]_vars

(***************************************************************************)
(* SpecNames: databases are created and users are registered, in any order *)
(***************************************************************************)
NextNames ==
    \/ \E usr \in roles \cap LoginRoles, database \in DbNames :
          geodb_create_database(usr, database)
    \/ \E usr \in Callers, user_name \in Users : geodb_register_user(usr, user_name)
    \/ \E usr \in Callers, user_name \in Users : geodb_user_exists(usr, user_name)

SpecNames == InitUsers /\ [][NextNames]_vars

(***************************************************************************)
(* Two sessions calling geodb_create_database at the same time.  Each call *)
(* is one transaction at the default isolation level READ COMMITTED: the   *)
(* SELECT of the count sees the rows committed so far, the INSERT is checked *)
(* against unique_db_name_owner, and the row is visible to the other       *)
(* session once the call has returned.  registry holds the committed rows. *)
(***************************************************************************)
DbIdle == [pc |-> "idle", usr |-> NoName, database |-> NoName, res |-> "none"]

DbRaceCall(s, usr, database) ==
    /\ pending[s].pc \in {"idle", "done"}
    /\ Cardinality(registry) < MaxRows
    /\ pending' = [pending EXCEPT ![s] = [DbIdle EXCEPT !.pc = "called", !.usr = usr,
                                                      !.database = database]]
    /\ UNCHANGED <<roles, members, registry, tables, admin_option, last>>

\* SELECT the count of rows WHERE name = database INTO ct; IF ct > 0 THEN RAISE
DbRaceCheck(s) ==
    LET p == pending[s]
        ct == Cardinality({r \in registry : r.name = p.database})
    IN  /\ p.pc = "called"
        /\ IF ct > 0
           THEN /\ pending' = [pending EXCEPT ![s].pc = "done", ![s].res = "exists already"]
                /\ last' = Call("create_database", p.usr, <<p.database>>,
                                "exists already", NoName)
           ELSE /\ pending' = [pending EXCEPT ![s].pc = "checked"]
                /\ UNCHANGED last
        /\ UNCHANGED <<roles, members, registry, tables, admin_option>>

\* the INSERT waits while another session holds an uncommitted row with the
\* same (name, owner)
DbRaceBlocked(s) ==
    \E o \in Sessions \ {s} :
        /\ pending[o].pc = "inserted"
        /\ pending[o].database = pending[s].database
        /\ pending[o].usr = pending[s].usr

\* INSERT INTO geodb_user_databases(name, owner, iss) VALUES (database, usr, '')
DbRaceInsert(s) ==
    LET p == pending[s]
    IN  /\ p.pc = "checked"
        /\ ~DbRaceBlocked(s)
        /\ IF Row(p.database, p.usr) \in registry
           THEN /\ pending' = [pending EXCEPT ![s].pc = "done", ![s].res = "unique_violation"]
                /\ last' = Call("create_database", p.usr, <<p.database>>,
                                "unique_violation", NoName)
           ELSE /\ pending' = [pending EXCEPT ![s].pc = "inserted"]
                /\ UNCHANGED last
        /\ UNCHANGED <<roles, members, registry, tables, admin_option>>

\* the function returns and its statement commits
DbRaceReturn(s) ==
    LET p == pending[s]
    IN  /\ p.pc = "inserted"
        /\ registry' = registry \cup {Row(p.database, p.usr)}
        /\ pending' = [pending EXCEPT ![s].pc = "done", ![s].res = "success"]
        /\ last' = Call("create_database", p.usr, <<p.database>>, "success", NoName)
        /\ UNCHANGED <<roles, members, tables, admin_option>>

(***************************************************************************)
(* SpecDbRace: two sessions calling geodb_create_database.                 *)
(***************************************************************************)
InitDbRace ==
    /\ roles = Users \cup Groups \cup {manager}
    /\ members = {<<manager, grp>>, <<manager, hgrp>>}
    /\ registry = {Row(alice, alice), Row(bob, bob)}
    /\ admin_option = {<<manager, grp>>, <<manager, hgrp>>}
    /\ pending = [s \in Sessions |-> DbIdle]
    /\ tables = <<>>
    /\ last = Call("init", NoName, <<>>, "success", NoName)

NextDbRace ==
    \/ \E s \in Sessions, usr \in Users, database \in {bob, <<"b", "a">>} :
          DbRaceCall(s, usr, database)
    \/ \E s \in Sessions : DbRaceCheck(s)
    \/ \E s \in Sessions : DbRaceInsert(s)
    \/ \E s \in Sessions : DbRaceReturn(s)

SpecDbRace == InitDbRace /\ [][NextDbRace]_vars

(***************************************************************************)
(* geodb_create_index(collection, property) and                            *)
(* geodb_drop_index(collection, property).  An index is kept with its      *)
(* table; its name is a relation name of schema public, which it shares    *)
(* with no other index and no table.                                       *)
(***************************************************************************)
geometry == <<"geometry">>

\* the names of the relations of schema public
RelationNames(T) == DOMAIN T \cup {i.name : i \in UNION {T[t].idx : t \in DOMAIN T}}

\* CREATE INDEX idx_name ON t [USING method] (col)
CreateIndex(T, usr, idx_name, t, col, method) ==
    IF t \notin DOMAIN T THEN Err("undefined_table", T)
    ELSE IF ~OwnsTable(T, usr, t) THEN Err("must be owner of table", T)
    ELSE IF idx_name \in RelationNames(T) THEN Err("duplicate_table", T)
    ELSE IF col \notin T[t].cols \cup {geometry} THEN Err("undefined_column", T)
    ELSE Ok(With(T, t, [T[t] EXCEPT !.idx = @ \cup
                           {[name |-> idx_name, col |-> col, method |-> method]}]))

\* DROP INDEX idx_name
DropIndex(T, usr, idx_name) ==
    LET on == {t \in DOMAIN T : \E i \in T[t].idx : i.name = idx_name}
    IN  IF on = {} THEN Err("undefined_object", T)
        ELSE LET t == CHOOSE t \in on : TRUE
             IN  IF ~OwnsTable(T, usr, t) THEN Err("must be owner of index", T)
                 ELSE Ok(With(T, t, [T[t] EXCEPT !.idx = {i \in @ : i.name # idx_name}]))

create_index(usr, collection, property) ==
    LET n == get_index_name(collection, property)
    IN  IF n.res # "success" THEN Err(n.res, tables)
        ELSE CreateIndex(tables, usr, n.val, collection, property,
                         IF property = geometry THEN "gist" ELSE "btree")

drop_index(usr, collection, property) ==
    LET n == get_index_name(collection, property)
    IN  IF n.res # "success" THEN Err(n.res, tables)
        ELSE DropIndex(tables, usr, n.val)

geodb_create_index(usr, collection, property) ==
    LET o == Outcome(create_index(usr, collection, property), tables)
    IN  /\ tables' = o.tables
        /\ last' = Call("create_index", usr, <<collection, property>>, o.res, o.who)
        /\ UNCHANGED <<roles, members, registry, admin_option, pending>>

geodb_drop_index(usr, collection, property) ==
    LET o == Outcome(drop_index(usr, collection, property), tables)
    IN  /\ tables' = o.tables
        /\ last' = Call("drop_index", usr, <<collection, property>>, o.res, o.who)
        /\ UNCHANGED <<roles, members, registry, admin_option, pending>>

(***************************************************************************)
(* SpecIdx: alice's collections a_x and a_a_x, both with the properties p  *)
(* and p_a, and the indexes made and dropped on them.                      *)
(***************************************************************************)
a_a_x == Collection(alice, <<"a", "_", "x">>)
p_a == <<"p", "_", "a">>
IdxProps == {<<"p">>, p_a, geometry}

InitIdx ==
    /\ roles = Users \cup Groups \cup {manager}
    /\ members = {<<manager, grp>>, <<manager, hgrp>>}
    /\ registry = {Row(alice, alice), Row(bob, bob)}
    /\ admin_option = {<<manager, grp>>, <<manager, hgrp>>}
    /\ pending = <<>>
    /\ LET s1 == CreateTable(<<>>, alice, a_x)
           s2 == add_properties(s1.tables, alice, a_x, <<<<"p">>, p_a>>)
           s3 == CreateTable(s2.tables, alice, a_a_x)
           s4 == add_properties(s3.tables, alice, a_a_x, <<<<"p">>, p_a>>)
       IN  tables = s4.tables
    /\ last = Call("create_collection", alice, <<a_a_x>>, "success", NoName)

NextIdx ==
    \/ \E usr \in Users, collection \in {a_x, a_a_x}, property \in IdxProps :
          geodb_create_index(usr, collection, property)
    \/ \E usr \in Users, collection \in {a_x, a_a_x}, property \in IdxProps :
          geodb_drop_index(usr, collection, property)

SpecIdx == InitIdx /\ [][NextIdx]_vars

(***************************************************************************)
(* Properties.  Membership is restated here from the membership edges, so  *)
(* that the properties do not lean on the operators they are about.        *)
(***************************************************************************)
\* u is g, or reaches g along at most n membership edges
RECURSIVE MemberWithin(_, _, _)
MemberWithin(u, g, n) ==
    \/ u = g
    \/ (n > 0 /\ \E e \in members : e[1] = u /\ MemberWithin(e[2], g, n - 1))

MemberOf(u, g) == MemberWithin(u, g, Cardinality(roles))

\* short names the properties try: a letter, a wildcard character, a longer name
ShortTexts == {<<"x">>, <<"_">>, <<"%">>, <<"x", "_", "y">>}

\* C1: geodb_create_collection called by a role for which geodb_user_allowed
\* is 0 raises 'No access for user' naming the caller and changes nothing:
\* no table, no trigger, no owner, no registry row, no membership.
C1_DeniedCreateChangesNothing ==
    [][\A usr \in Users, collection \in CollNames :
          (/\ last'.op = "create_collection"
           /\ last'.usr = usr
           /\ last'.args = <<collection>>
           /\ geodb_user_allowed(collection, usr) = 0)
          => (/\ last'.res = "No access for user"
              /\ last'.who = usr
              /\ tables' = tables
              /\ registry' = registry
              /\ members' = members
              /\ roles' = roles)]_vars

\* a denied geodb_create_collection has just returned
C1_DeniedCreateReached ==
    /\ last.op = "create_collection"
    /\ last.res = "No access for user"
    /\ last.who = last.usr
    /\ geodb_user_allowed(last.args[1], last.usr) = 0
    /\ last.args[1] \notin DOMAIN tables

\* C2: when every registry row of database N belongs to a role that is neither
\* the caller nor a group the caller is in, geodb_create_collection of a
\* collection N_<short> by the caller raises 'No access for user'.
C2_NoCollectionInForeignDatabase ==
    \A database \in DbNames, short \in ShortNames :
        (/\ last.op = "create_collection"
         /\ last.args = <<Collection(database, short)>>
         /\ \E r \in registry : r.name = database
         /\ \A r \in registry : r.name = database => ~MemberOf(last.usr, r.owner))
        => (last.res = "No access for user" /\ last.who = last.usr)

\* C3: for every registry row (N, G) and every role U that is G or a direct or
\* nested member of G, geodb_user_allowed(N_<short>, U) is 1 for every
\* non-empty short name.
C3_NestedMemberIsAllowed ==
    \A r \in registry, usr \in roles, short \in ShortTexts :
        MemberOf(usr, r.owner) => geodb_user_allowed(Collection(r.name, short), usr) = 1

\* bob has made a collection in a database owned by a group he is in only
\* through another group
C3_NestedMemberReached ==
    /\ Row(alice, hgrp) \in registry
    /\ Row(alice, grp) \notin registry
    /\ <<bob, grp>> \in members
    /\ <<grp, hgrp>> \in members
    /\ <<bob, hgrp>> \notin members
    /\ last = Call("create_collection", bob, <<a_x>>, "success", NoName)
    /\ a_x \in DOMAIN tables

\* the table named old in T is the table named new in T2, and nothing else differs
Renamed(T, T2, old, new) ==
    /\ old \in DOMAIN T
    /\ DOMAIN T2 = (DOMAIN T \ {old}) \cup {new}
    /\ T2[new] = T[old]
    /\ \A t \in DOMAIN T \ {old} : T2[t] = T[t]

\* C4 as the specification states it: geodb_rename_collection(C, D) of an
\* existing collection C renames it and returns success exactly when
\* geodb_user_allowed(D, caller) is 1, and raises the permission error naming
\* the caller otherwise.
C4_RenameIffAllowed ==
    [][\A usr \in Users, c \in RenameCalls :
          (/\ last'.op = "rename_collection"
           /\ last'.usr = usr
           /\ last'.args = c
           /\ c[1] \in DOMAIN tables)
          => IF geodb_user_allowed(c[2], usr) = 1
             THEN last'.res = "success" /\ Renamed(tables, tables', c[1], c[2])
             ELSE /\ last'.res = "has not access to that table or database"
                  /\ last'.who = usr
                  /\ tables' = tables]_vars

\* C4, amended: when geodb_user_allowed(D, caller) is 0 the call raises the
\* permission error naming the caller and no table changes; when it is 1,
\* whatever geodb_user_allowed(C, caller) is, the call renames C to D and
\* returns success exactly when C exists, D is not the name of a table and the
\* caller has the rights of the owner of table C; otherwise it raises the
\* error of ALTER TABLE and no table changes.  Registry and membership never
\* change.
C4_RenameAllowedOwnerFreeName ==
    [][\A usr \in Users, c \in RenameCalls :
          (/\ last'.op = "rename_collection"
           /\ last'.usr = usr
           /\ last'.args = c)
          => /\ registry' = registry /\ members' = members /\ roles' = roles
             /\ IF geodb_user_allowed(c[2], usr) = 0
                THEN /\ last'.res = "has not access to that table or database"
                     /\ last'.who = usr
                     /\ tables' = tables
                ELSE IF /\ c[1] \in DOMAIN tables
                        /\ c[2] \notin DOMAIN tables
                        /\ MemberOf(usr, tables[c[1]].owner)
                THEN last'.res = "success" /\ Renamed(tables, tables', c[1], c[2])
                ELSE /\ last'.res \in {"undefined_table", "must be owner of table",
                                       "duplicate_table"}
                     /\ last'.who = NoName
                     /\ tables' = tables]_vars

\* a collection has been renamed by a caller who is not allowed in the
\* database it came from
C4_RenamedOutOfForeignDatabase ==
    /\ last.op = "rename_collection"
    /\ last.res = "success"
    /\ geodb_user_allowed(last.args[1], last.usr) = 0
    /\ geodb_user_allowed(last.args[2], last.usr) = 1
    /\ last.args[2] \in DOMAIN tables
    /\ last.args[1] \notin DOMAIN tables

\* C5: geodb_create_database(name) raises 'exists already' and changes nothing
\* when the registry holds a row of that name, whoever owns it; otherwise it
\* adds exactly the row (name, caller) and changes nothing else.
C5_CreateDatabaseOncePerName ==
    [][\A usr \in Users, database \in DbNames :
          (/\ last'.op = "create_database"
           /\ last'.usr = usr
           /\ last'.args = <<database>>)
          => /\ tables' = tables /\ members' = members /\ roles' = roles
             /\ IF \E owner \in roles : Row(database, owner) \in registry
                THEN last'.res = "exists already" /\ registry' = registry
                ELSE /\ last'.res = "success"
                     /\ Row(database, usr) \notin registry
                     /\ registry' = registry \cup {Row(database, usr)}]_vars

\* geodb_create_database has been refused for a name that only another role
\* has a database of
C5_ForeignNameRefused ==
    /\ last.op = "create_database"
    /\ last.res = "exists already"
    /\ Row(last.args[1], last.usr) \notin registry
    /\ \E r \in registry : r.name = last.args[1] /\ r.owner # last.usr

\* geodb_create_database has added the caller's row
C5_DatabaseAdded ==
    /\ last.op = "create_database"
    /\ last.res = "success"
    /\ Row(last.args[1], last.usr) \in registry

\* C6: geodb_truncate_database(name) removes exactly the row (name, caller)
\* when it is there and is a silent no-op otherwise; the rows of other owners,
\* other names, and all collections stay as they are.
C6_TruncateRemovesOwnRow ==
    [][\A usr \in Users, database \in DbNames :
          (/\ last'.op = "truncate_database"
           /\ last'.usr = usr
           /\ last'.args = <<database>>)
          => /\ last'.res = "success"
             /\ registry' = registry \ {Row(database, usr)}
             /\ tables' = tables
             /\ members' = members]_vars

\* grant(C, usr) has taken effect: the access list of C names usr for SELECT
Granted(usr, collection) ==
    /\ collection \in DOMAIN tables
    /\ <<usr, "SELECT">> \in tables[collection].acl

AlterOps == {"add_properties", "drop_properties"}

GrantCalls == {<<c, g>> : c \in {a_x, b_x}, g \in Grantees}

\* the catalog T with SELECT on collection and its sequence granted to grantee
WithGrant(T, collection, grantee) ==
    [T EXCEPT ![collection].acl = @ \cup {<<grantee, "SELECT">>},
              ![collection].seqacl = @ \cup {grantee}]

C8_NoSequenceRaised ==
    /\ last.op = "grant_access_to_collection"
    /\ last.res = "No sequence for collection"
    /\ last.args[1] \in DOMAIN tables
    /\ ~tables[last.args[1]].seq
    /\ ~Granted(last.args[2], last.args[1])

\* a grant by a caller without the owner's rights has just returned success
C8_NothingGranted ==
    /\ last.op = "grant_access_to_collection"
    /\ last.res = "success"
    /\ ~MemberOf(last.usr, tables[last.args[1]].owner)
    /\ ~Granted(last.args[2], last.args[1])

\* C9: geodb_revoke_access_from_collection(C, G), called by a role with the
\* rights of the owner of table C, on an existing C whose id owns no
\* sequence, completes without error, and afterwards G no longer holds SELECT
\* on C.
C9_RevokeWithoutSequence ==
    \A c \in GrantCalls :
        (/\ last.op = "revoke_access_from_collection"
         /\ last.args = c
         /\ c[1] \in DOMAIN tables
         /\ ~tables[c[1]].seq
         /\ MemberOf(last.usr, tables[c[1]].owner))
        => (last.res = "success" /\ ~Granted(c[2], c[1]))

SameOutcome(o1, o2) ==
    IF o1.res = "success" THEN o2.res = "success" /\ o1.tables = o2.tables
    ELSE o2.res = o1.res

\* C10: from every state, geodb_publish_collection(C) ends as
\* geodb_grant_access_to_collection(C, 'public') does and
\* geodb_unpublish_collection(C) as geodb_revoke_access_from_collection(C,
\* 'public') does: the same error, or the same privileges on the table and on
\* its sequence.
C10_PublishIsGrantToPublic ==
    \A usr \in Users, collection \in {a_x, b_x} :
        /\ SameOutcome(publish_collection(usr, collection),
                       grant_access_to_collection(usr, collection, PUBLIC))
        /\ SameOutcome(unpublish_collection(usr, collection),
                       revoke_access_from_collection(usr, collection, PUBLIC))


QueryOps == {"get_pg", "get_by_bbox", "count_by_bbox"}

\* the rows of the collection that the last query's predicate matches
LastSelected == tables[last.args[1]].rows \cap last.args[Len(last.args)]

\* C11: geodb_get_pg, geodb_get_by_bbox and geodb_count_by_bbox end in an
\* error, never in a success value, whenever no row of the collection
\* satisfies the predicate of the call, an empty collection included.
C11_EmptyResultIsError ==
    (/\ last.op \in QueryOps
     /\ last.args[1] \in DOMAIN tables
     /\ LastSelected = {})
    => last.res # "success"

EightModes ==
    {"within", "contains", "intersects", "touches", "overlaps", "crosses",
     "disjoint", "equals"}

\* C12: geodb_get_by_bbox and geodb_count_by_bbox raise a data exception for
\* every comparison_mode other than within, contains, intersects, touches,
\* overlaps, crosses, disjoint and equals, whatever the collection (it is
\* raised before the collection is read, so a missing or unreadable
\* collection does not show), and for none of these eight.
C12_OnlyEightModes ==
    last.op \in {"get_by_bbox", "count_by_bbox"}
    => (last.res = "data_exception" <=> last.args[2] \notin EightModes)

\* an unknown mode was refused on a collection that does not exist
C12_BogusModeOnMissingCollection ==
    /\ last.op \in {"get_by_bbox", "count_by_bbox"}
    /\ last.args[2] = "bogus"
    /\ last.args[1] \notin DOMAIN tables
    /\ last.res = "data_exception"


\* the suffixes of the sequence s, s itself and the empty one included
Suffixes(s) == {SubSeq(s, i, Len(s)) : i \in 1..(Len(s) + 1)}

\* C13: for every collection and property, geodb_get_index_name returns
\* 'idx_' || property || '_' || s of at most 63 characters, where s is the
\* longest suffix of the collection name (the whole name when it fits) for
\* which the composed name has at most 63 characters.
C13_IndexNameFits ==
    last.op = "get_index_name"
    => /\ last.res = "success"
       /\ Len(last.val) <= 63
       /\ \E s \in Suffixes(last.args[1]) :
             /\ last.val = FormatIdx(last.args[2], s)
             /\ \A t \in Suffixes(last.args[1]) :
                   Len(FormatIdx(last.args[2], t)) <= 63 => Len(t) <= Len(s)

\* whenever the function returns, it returns the name C13 describes
IndexNameWhenReturned ==
    (last.op = "get_index_name" /\ last.res = "success")
    => /\ Len(last.val) <= 63
       /\ \E s \in Suffixes(last.args[1]) :
             /\ last.val = FormatIdx(last.args[2], s)
             /\ \A t \in Suffixes(last.args[1]) :
                   Len(FormatIdx(last.args[2], t)) <= 63 => Len(t) <= Len(s)


\* C14: as long as a registered user u exists as a role, the registry holds
\* the row (u, u): no operation by u or by another role removes it.
C14_DefaultDatabaseKept ==
    \A u \in Users : u \in roles => Row(u, u) \in registry

\* C15: geodb_register_user(u, pw), called by a role that may create roles
\* on a name u that is a role already, returns 'success', leaves the roles
\* and their memberships as they were and leaves the registry as it was but
\* for the row (u, u), which it holds exactly once.
C15_ReRegistrationTolerated ==
    [][(/\ last'.op = "register_user"
        /\ last'.args[1] \in roles
        /\ has_createrole(last'.usr))
       => (/\ last'.res = "success"
           /\ roles' = roles
           /\ members' = members
           /\ admin_option' = admin_option
           /\ registry' = registry \cup {Row(last'.args[1], last'.args[1])}
           /\ Cardinality({r \in registry' : r.name = last'.args[1]
                                             /\ r.owner = last'.args[1]}) = 1)]_vars

\* a registration that met the existing role u has returned success
C15_RegisteredTwice ==
    /\ last.op = "register_user"
    /\ last.res = "success"
    /\ last.args[1] \in Users
    /\ last.who = last.args[1]
    /\ Row(last.args[1], last.args[1]) \in registry

Administrators == {postgres, geodb_admin}

RoleOps ==
    {"register_user", "user_exists", "drop_user", "create_role", "group_grant",
     "group_revoke"}

\* C16: a call of geodb_register_user, geodb_user_exists, geodb_drop_user,
\* geodb_create_role, geodb_group_grant or geodb_group_revoke by a role that
\* is not an administrator is rejected, and no role, membership or registry
\* row changes.
C16_RoleOpsNeedAdministrator ==
    [][(last'.op \in RoleOps /\ last'.usr \notin Administrators)
       => (/\ last'.res # "success"
           /\ roles' = roles
           /\ members' = members
           /\ admin_option' = admin_option
           /\ registry' = registry)]_vars

\* the same for the changes alone: a call by a role that is neither an
\* administrator nor holds a manage subscription changes no role and no
\* membership
RoleOpsChangeNothingForOthers ==
    [][(last'.op \in RoleOps /\ last'.usr \notin Administrators \cup Managers)
       => (roles' = roles /\ members' = members /\ admin_option' = admin_option)]_vars


\* the names of the entries of the batch of the call recorded in c
BatchName(c, i) == c.args[1][i].collection

\* C17 as stated: when geodb_create_collections fails on entry k, the
\* collections of the entries before k stay created and those of entry k and
\* after it are not created.
C17_FailedBatchKeepsEarlierEntries ==
    [][(last'.op = "create_collections" /\ last'.res # "success")
       => \A i \in 1..Len(last'.args[1]) :
             IF i < last'.val
             THEN BatchName(last', i) \in DOMAIN tables'
             ELSE BatchName(last', i) \notin DOMAIN tables
                  => BatchName(last', i) \notin DOMAIN tables']_vars

\* C17 amended: a geodb_create_collections call that fails on any entry
\* leaves every collection as it was before the call, the entries before the
\* failing one included; a call that succeeds has created every entry.
C17_FailedBatchCreatesNothing ==
    [][last'.op = "create_collections"
       => IF last'.res # "success" THEN tables' = tables
          ELSE \A i \in 1..Len(last'.args[1]) :
                  /\ BatchName(last', i) \notin DOMAIN tables
                  /\ BatchName(last', i) \in DOMAIN tables']_vars

\* a batch has failed on its second entry and its first entry does not exist
C17_FirstEntryUndone ==
    /\ last.op = "create_collections"
    /\ last.res # "success"
    /\ last.val = 2
    /\ BatchName(last, 1) \notin DOMAIN tables


\* sessions s and t have both finished a call for the same collection that
\* geodb_user_allowed let pass
RacedFor(s, t) ==
    /\ s # t
    /\ pending[s].pc = "done" /\ pending[t].pc = "done"
    /\ pending[s].collection = pending[t].collection
    /\ pending[s].res # "No access for user"
    /\ pending[t].res # "No access for user"

MutatingOps ==
    {"create_collection", "copy_collection", "add_properties", "drop_properties",
     "grant_access_to_collection", "revoke_access_from_collection",
     "publish_collection", "unpublish_collection"}

\* the collection a call creates or changes
TargetOf(c) == IF c.op = "copy_collection" THEN c.args[2] ELSE c.args[1]

\* C19: every operation that creates or changes a collection or the
\* privileges on it checks first that its caller is allowed in the database
\* of the collection (geodb_user_allowed), and a call whose caller is not
\* allowed fails and changes no collection.
C19_NoMutationWithoutOwnership ==
    [][(/\ last'.op \in MutatingOps
        /\ geodb_user_allowed(TargetOf(last'), last'.usr) = 0)
       => (last'.res \notin {"success", "SUCCESS"} /\ tables' = tables)]_vars


\* C20: geodb_estimate_collection_count on an existing collection whose
\* stored page count is zero returns, by the alternative estimation, an
\* integer that is not negative, and raises no error.
C20_EstimateNotNegative ==
    (/\ last.op = "estimate_collection_count"
     /\ last.args[1] \in DOMAIN tables
     /\ relpages(tables, last.args[1]) = 0)
    => (last.res = "success" /\ ~last.val.null /\ last.val.n >= 0)


\* table D of catalog T2 is a copy of table S of catalog T1 with the trigger
\* update_D_modtime
IsCopyOf(T2, D, T1, S) ==
    /\ D \in DOMAIN T2
    /\ T2[D].cols = T1[S].cols
    /\ T2[D].rows = T1[S].rows
    /\ T2[D].trig = {TrigName(D)}

\* C21 as stated: geodb_copy_collection(S, D) by a caller P that
\* geodb_user_allowed lets pass for D creates D with the columns and the rows
\* of S and the trigger update_D_modtime and leaves S as it is; for a caller
\* it does not let pass the call raises the permission error naming P and
\* changes nothing.
C21_CopyWhenAllowed ==
    [][last'.op = "copy_collection"
       => IF geodb_user_allowed(last'.args[2], last'.usr) = 1
          THEN /\ last'.res = "SUCCESS"
               /\ IsCopyOf(tables', last'.args[2], tables, last'.args[1])
               /\ tables'[last'.args[1]] = tables[last'.args[1]]
          ELSE /\ last'.res = "has not access to that table or database"
               /\ last'.who = last'.usr
               /\ tables' = tables]_vars

\* C21 amended: the same, where S exists, D does not exist and P holds SELECT
\* on S; a caller that is let pass for D but meets a missing S, an existing
\* D or an S it may not read gets the engine's error and nothing is created
\* or changed.
C21_CopyWhenAllowedAndReadable ==
    [][last'.op = "copy_collection"
       => IF geodb_user_allowed(last'.args[2], last'.usr) = 0
          THEN /\ last'.res = "has not access to that table or database"
               /\ last'.who = last'.usr
               /\ tables' = tables
          ELSE IF /\ last'.args[1] \in DOMAIN tables
                  /\ last'.args[2] \notin DOMAIN tables
                  /\ HoldsTablePriv(tables, last'.usr, last'.args[1], "SELECT")
          THEN /\ last'.res = "SUCCESS"
               /\ IsCopyOf(tables', last'.args[2], tables, last'.args[1])
               /\ \A t \in DOMAIN tables : tables'[t] = tables[t]
          ELSE /\ last'.res \in {"undefined_table", "duplicate_table",
                                 "permission denied for table"}
               /\ tables' = tables]_vars

\* bob, who does not own a_x, has just copied its rows into his database
C21_CopiedWithRows ==
    /\ last.op = "copy_collection"
    /\ last.res = "SUCCESS"
    /\ last.usr = bob
    /\ last.args = <<a_x, b_x>>
    /\ tables[b_x].rows # {}
    /\ IsCopyOf(tables, b_x, tables, a_x)


Provided(a) ==
    {c \in {"WHERE", "GROUP BY", "ORDER BY", "LIMIT", "OFFSET"} :
        \/ c = "WHERE" /\ ~a.where.null
        \/ c = "GROUP BY" /\ ~a.group.null
        \/ c = "ORDER BY" /\ ~a.order.null
        \/ c = "LIMIT" /\ ~a.limit.null
        \/ c = "OFFSET" /\ ~a.offset.null}

\* the rows left of n rows after skipping offset and taking limit of them
LeftOf(n, a) ==
    LET skipped == IF a.offset.null THEN n
                   ELSE IF a.offset.v < n THEN n - a.offset.v ELSE 0
    IN  IF a.limit.null THEN skipped
        ELSE IF a.limit.v < skipped THEN a.limit.v ELSE skipped

\* C22: geodb_get_pg appends each of the clauses WHERE, GROUP BY, ORDER BY,
\* LIMIT and OFFSET if and only if its argument is given, each independently
\* of the others, so that a given offset skips that many rows with or
\* without a limit.
C22_ClauseIffProvided ==
    (last.op = "get_pg_query" /\ last.res = "success")
    => LET a == last.args[2]
           rows == tables[last.args[1]].rows
           selected == IF a.where.null THEN rows ELSE rows \cap a.where.v
       IN  /\ last.val.clauses = Provided(a)
           /\ Len(last.val.items) = LeftOf(Cardinality(selected), a)

\* the same for the clauses other than OFFSET, and for OFFSET when a limit
\* is given as well
ClauseIffProvidedButOffset ==
    (last.op = "get_pg_query" /\ last.res = "success")
    => LET a == last.args[2]
           rows == tables[last.args[1]].rows
           selected == IF a.where.null THEN rows ELSE rows \cap a.where.v
       IN  /\ last.val.clauses \ {"OFFSET"} = Provided(a) \ {"OFFSET"}
           /\ ~a.limit.null
              => /\ last.val.clauses = Provided(a)
                 /\ Len(last.val.items) = LeftOf(Cardinality(selected), a)


\* the last call was a geodb_get_by_bbox without "where", "limit" and
\* "offset" that returned
BboxCallWithoutWhere ==
    /\ last.op = "get_by_bbox_op"
    /\ last.res = "success"
    /\ last.args[3].where.null
    /\ last.args[3].limit = 0
    /\ last.args[3].offset = 0

\* C23: without "where", geodb_get_by_bbox returns exactly the rows whose
\* geometry the rectangle and the comparison mode match, by ascending id,
\* whether op is AND or OR.
C23_BboxAloneWithoutWhere ==
    BboxCallWithoutWhere
    => /\ IsAscending(last.val.items)
       /\ {last.val.items[i] : i \in DOMAIN last.val.items}
             = tables[last.args[1]].rows \cap last.args[2]

\* the same for op = 'AND' alone
BboxAloneWithoutWhereAnd ==
    (BboxCallWithoutWhere /\ last.args[3].op = "AND")
    => /\ IsAscending(last.val.items)
       /\ {last.val.items[i] : i \in DOMAIN last.val.items}
             = tables[last.args[1]].rows \cap last.args[2]


\* the registered names N with table_name = N, '_', and a non-empty short name
NamespacesOf(table_name) ==
    {r.name : r \in {q \in registry :
        /\ Len(table_name) > Len(q.name) + 1
        /\ SubSeq(table_name, 1, Len(q.name) + 1) = q.name \o <<"_">>}}

\* C24: list_collections reports every collection the caller can see under
\* exactly one namespace: the longest registered name N such that the physical
\* name is N, '_' and a non-empty short name; the owner reported is an owner
\* registered for N.
C24_ListedUnderLongestNamespace ==
    (last.op = "get_my_collections" /\ last.args[1] = NoName) =>
        \A t \in VisibleTables(last.usr) :
            \E r \in last.val :
                /\ r.database \in NamespacesOf(t)
                /\ \A n \in NamespacesOf(t) : Len(n) <= Len(r.database)
                /\ t = r.database \o <<"_">> \o r.collection
                /\ [name |-> r.database, owner |-> r.owner] \in registry
                /\ \A q \in last.val :
                      t = q.database \o <<"_">> \o q.collection => q = r


\* C25: on the memberships the engine admits (no role is a member of itself
\* through other roles), geodb_user_allowed(c, p) returns, its value is 0 or
\* 1, and none of its nested calls is made for p.
C25_UserAllowedReturns ==
    last.op = "user_allowed" =>
        /\ last.res = "success"
        /\ last.val \in {0, 1}
        /\ last.args[2] \notin last.recursed

\* the calls give the answer of the permission test used by the operations
UserAllowedCallAgrees ==
    last.op = "user_allowed" =>
        last.val = geodb_user_allowed(last.args[1], last.args[2])

\* bob is allowed through a group of a group
C25_AllowedThroughTwoGroups ==
    /\ last.op = "user_allowed"
    /\ last.args[2] = bob
    /\ last.val = 1
    /\ last.recursed = {grp, hgrp}
    /\ <<grp, hgrp>> \in members \/ <<hgrp, grp>> \in members


\* C26: geodb_get_index_name returns for every collection name and every
\* property name, whatever the length of the property name.
C26_IndexNameReturns ==
    last.op = "get_index_name" => last.res # "never returns"


\* C27: after any sequence of geodb_create_database and geodb_register_user
\* calls no database name is registered with two different owners; the
\* default database (u, u) of a user u is not shared with a principal who
\* created a database named u before u was registered.
C27_NameHasOneOwner ==
    \A r, q \in registry : r.name = q.name => r.owner = q.owner


\* C28: two geodb_create_database calls for the same name by different
\* callers that overlap in time never both succeed: whatever the order of
\* their checks and inserts, at most one registry row carries that name
\* when both have returned.
C28_OneCreatorWins ==
    \A s, t \in Sessions :
        (/\ pending[s].pc = "done" /\ pending[t].pc = "done"
         /\ pending[s].database = pending[t].database
         /\ pending[s].usr # pending[t].usr)
        => /\ ~(pending[s].res = "success" /\ pending[t].res = "success")
           /\ Cardinality({r \in registry : r.name = pending[s].database}) <= 1


\* C29: geodb_group_publish_database(db, g) adds the row (db, g) only when
\* the caller owns db, directly or through a group it is a member of; a call
\* by any other principal leaves the registry as it was.
C29_OnlyOwnerSharesDatabase ==
    [][(last'.op = "group_publish_database" /\ registry' # registry)
       => \E r \in registry :
             /\ r.name = last'.args[1]
             /\ pg_has_role(last'.usr, r.owner)]_vars


\* C30: index names are unique per (collection, property): geodb_create_index
\* on a pair without an index does not fail because the name is taken by the
\* index of another pair, and geodb_drop_index(C, p) removes no index of a
\* collection other than C.
C30_IndexNamePerPair ==
    [][/\ (last'.op = "create_index" /\ last'.res = "duplicate_table")
          => \E i \in tables[last'.args[1]].idx : i.col = last'.args[2]
       /\ (last'.op = "drop_index" /\ last'.res = "success")
          => \A t \in DOMAIN tables \ {last'.args[1]} : tables'[t].idx = tables[t].idx]_vars
====
